---- MODULE Spec2Model ----
(***************************************************************************)
(* Model of the LE address manager (gd/hci/le_address_manager.cc): the     *)
(* privacy policy, the registered clients and their recorded states, the   *)
(* cached command queue, the rotation alarm, the handler's task queue and  *)
(* the commands handed to enqueue_command_ that have not completed yet;    *)
(* of its address generators and its rotation interval as functions of     *)
(* their random inputs; and of the rootcanal HAL                           *)
(* (gd/hal/hci_hal_host_rootcanal.cc): the outgoing queue and its write    *)
(* callback, and the read callback on the byte stream from the peer.       *)
(***************************************************************************)
EXTENDS Integers, Sequences, FiniteSets, TLC

(* ------------------------------ bounds --------------------------------- *)
\* commands pushed to cached_commands_ over one run
MaxCommands == 2
\* tasks waiting in the handler's queue
MaxTasks == 1
Clients == {"c1", "c2"}

(* --------------------------- program constants -------------------------- *)
BLE_ADDR_MASK == 192

POLICY_NOT_SET == "POLICY_NOT_SET"
USE_PUBLIC_ADDRESS == "USE_PUBLIC_ADDRESS"
USE_STATIC_ADDRESS == "USE_STATIC_ADDRESS"
USE_NON_RESOLVABLE_ADDRESS == "USE_NON_RESOLVABLE_ADDRESS"
USE_RESOLVABLE_ADDRESS == "USE_RESOLVABLE_ADDRESS"

AddressPolicy ==
  {POLICY_NOT_SET, USE_PUBLIC_ADDRESS, USE_STATIC_ADDRESS,
   USE_NON_RESOLVABLE_ADDRESS, USE_RESOLVABLE_ADDRESS}

WAITING_FOR_PAUSE == "WAITING_FOR_PAUSE"
PAUSED == "PAUSED"
WAITING_FOR_RESUME == "WAITING_FOR_RESUME"
RESUMED == "RESUMED"

ClientState == {WAITING_FOR_PAUSE, PAUSED, WAITING_FOR_RESUME, RESUMED}

ROTATE_RANDOM_ADDRESS == "ROTATE_RANDOM_ADDRESS"

\* the command types of the list mutators in the model: one with arguments
\* and one without.  The six mutators are the same statements around
\* different packet builders, and the manager reads a cached command's type
\* only to tell ROTATE_RANDOM_ADDRESS from the rest.
ListCommandType == {"ADD_DEVICE_TO_CONNECT_LIST", "CLEAR_RESOLVING_LIST"}

LE_SET_RANDOM_ADDRESS == "LE_SET_RANDOM_ADDRESS"

\* the op code of the packet a cached command carries
OpCodeOf(command_type) ==
  IF command_type = ROTATE_RANDOM_ADDRESS THEN LE_SET_RANDOM_ADDRESS
  ELSE command_type

\* what a completion event can look like to OnCommandComplete
CommandCompleteView == {"SUCCESS", "ERROR_STATUS", "INVALID"}

\* fixed addresses handed to the policy setters, address[0..5]
Addr(b0, b5) == [i \in 0..5 |-> IF i = 5 THEN b5 ELSE b0]
FixedAddresses ==
  {Addr(17, 197), Addr(17, 69), Addr(0, 192), Addr(255, 255)}

\* the fixed addresses tried with a policy: only USE_STATIC_ADDRESS reads
\* the address
AddressesFor(policy) ==
  IF policy = "USE_STATIC_ADDRESS" THEN FixedAddresses ELSE {Addr(17, 197)}

\* Address::kEmpty, the address of a default-constructed AddressWithType;
\* also stands in the model for the packet that carries no address
EmptyAddress == [i \in 0..5 |-> 0]

NoFatal == "none"

\* a callback that is not a key of registered_clients_
NOT_REGISTERED == "NOT_REGISTERED"

VARIABLES
  address_policy,          \* address_policy_
  registered_clients,      \* registered_clients_: callback -> ClientState
  cached_commands,         \* cached_commands_: FIFO of [id, command_type]
  address_rotation_alarm,  \* "null", "idle" or "scheduled"
  handler_queue,           \* tasks posted to handler_, not run yet
  hci_queue,               \* commands given to enqueue_command_, not completed
  pending_push,            \* a list mutator between its Invoke() and its push
  next_id,                 \* number of commands pushed so far
  last_submitted,          \* id of the cached command submitted last
  client_view,             \* the client's side: has it called Register
  pending_pause,           \* the client has an OnPause to acknowledge
  pending_resume,          \* the client has an OnResume to acknowledge
  observed,                \* the last operation and the callbacks it made
  fatal,                   \* the failed assertion, once the process aborted
  le_address,              \* le_address_: the bytes address[0..5]
  le_address_type,         \* le_address_: its AddressType
  pure_call,               \* a call of one of the file's pure functions
  sock_fd,                 \* sock_fd_: INVALID_FD or the connected socket
  incoming_packet_callback,\* incoming_packet_callback_
  read_registered,         \* reactable_ has the read callback registered
  write_registered,        \* reactable_ has the write callback registered
  hci_outgoing_queue,      \* hci_outgoing_queue_: frames, tag first
  socket_written,          \* the bytes written to the socket so far
  wire,                    \* bytes the peer wrote that have not arrived yet
  socket_readable,         \* bytes that arrived and are not read yet
  handed,                  \* the packets handed to the send functions
  peer_wrote,              \* the frames the peer wrote
  received,                \* the packets given to the callbacks
  hal_fatal,               \* the reason the HAL's process aborted
  btsnoop_logger,          \* btsnoop_logger_: "nullptr" or "allocated"
  stop_pc,                 \* where a running Stop is, which holds mutex_
  stops,                   \* number of calls of Stop that returned
  read_packet,             \* receivedHciPacket of a running read callback
  released_use,            \* what a callback used after Stop released it
  peer_closed,             \* the peer closed its end of the connection
  rotation_irk,            \* rotation_irk_
  minimum_rotation_time,   \* minimum_rotation_time_, in ms
  maximum_rotation_time    \* maximum_rotation_time_, in ms

vars ==
  <<address_policy, registered_clients, cached_commands,
    address_rotation_alarm, handler_queue, hci_queue, pending_push, next_id,
    last_submitted, client_view, pending_pause, pending_resume, observed,
    fatal, le_address, le_address_type,
    pure_call, sock_fd, incoming_packet_callback,
    read_registered, write_registered, hci_outgoing_queue, socket_written,
    wire, socket_readable, handed, peer_wrote, received, hal_fatal,
    btsnoop_logger, stop_pc, stops, read_packet, released_use, peer_closed,
    rotation_irk, minimum_rotation_time, maximum_rotation_time>>

\* what the policy setters store for the rotation; no handler assigns it
rotation_vars ==
  <<rotation_irk, minimum_rotation_time, maximum_rotation_time>>

\* the manager's own state, which a call of a pure function leaves alone
manager_vars ==
  <<address_policy, registered_clients, cached_commands,
    address_rotation_alarm, handler_queue, hci_queue, pending_push, next_id,
    last_submitted, client_view, pending_pause, pending_resume, observed,
    fatal, le_address, le_address_type, rotation_vars>>

\* the state of the rootcanal HAL (gd/hal/hci_hal_host_rootcanal.cc)
hal_vars ==
  <<sock_fd, incoming_packet_callback, read_registered, write_registered,
    hci_outgoing_queue, socket_written, wire, socket_readable, handed,
    peer_wrote, received, hal_fatal, btsnoop_logger, stop_pc, stops,
    read_packet, released_use, peer_closed>>

\* the read callback holds no packet
NoPacket == [callback |-> "none", packet |-> << >>]

\* the state outside the manager's handlers
other_vars == <<pure_call, hal_vars, rotation_vars>>

\* no call of a pure function is being looked at
NoCall == [fn |-> "none"]

Task(fn, arg) == [fn |-> fn, arg |-> arg]

\* the operation that ran last (arg is its argument, for the reader) and the
\* clients it called OnPause and OnResume on
Obs(op, arg, on_pause, on_resume) ==
  [op |-> op, OnPause |-> on_pause, OnResume |-> on_resume]

Running == fatal = NoFatal

\* the keys of registered_clients_
Registered == {c \in Clients : registered_clients[c] # NOT_REGISTERED}

Init ==
  /\ address_policy = POLICY_NOT_SET
  /\ registered_clients = [c \in Clients |-> NOT_REGISTERED]
  /\ cached_commands = << >>
  /\ address_rotation_alarm = "null"
  /\ handler_queue = << >>
  /\ hci_queue = << >>
  /\ pending_push = "none"
  /\ next_id = 0
  /\ last_submitted = 0
  /\ client_view = [c \in Clients |-> FALSE]
  /\ pending_pause = [c \in Clients |-> FALSE]
  /\ pending_resume = [c \in Clients |-> FALSE]
  /\ observed = Obs("init", "none", {}, {})
  /\ fatal = NoFatal
  /\ le_address = EmptyAddress
  /\ le_address_type = "PUBLIC_DEVICE_ADDRESS"
  /\ pure_call = NoCall
  /\ sock_fd = "INVALID_FD"
  /\ incoming_packet_callback = "nullptr"
  /\ read_registered = FALSE
  /\ write_registered = FALSE
  /\ hci_outgoing_queue = << >>
  /\ socket_written = << >>
  /\ wire = << >>
  /\ socket_readable = << >>
  /\ handed = << >>
  /\ peer_wrote = << >>
  /\ received = << >>
  /\ hal_fatal = NoFatal
  /\ btsnoop_logger = "nullptr"
  /\ stop_pc = "idle"
  /\ stops = 0
  /\ read_packet = NoPacket
  /\ released_use = "none"
  /\ peer_closed = FALSE
  /\ rotation_irk = "unset"
  /\ minimum_rotation_time = "unset"
  /\ maximum_rotation_time = "unset"

(* ------------------- helpers of the handler functions ------------------- *)

\* handler_->Post / BindOnceOn(...).Invoke(): the task is appended
Post(task) == handler_queue' = Append(handler_queue, task)

CanPost == Len(handler_queue) < MaxTasks

\* a client that is called back owes an acknowledgment, unless it has left
Notify(pending, notified) ==
  [c \in Clients |-> pending[c] \/ (c \in notified /\ client_view[c])]

\* `for (auto client : registered_clients_) client.second = state;`
\* the loop variable is a copy of the map's element
RangeForAssign(clients, keys, state) == clients

\* the address rotate_random_address generates, generate_rpa() under
\* USE_RESOLVABLE_ADDRESS and generate_nrpa() otherwise: one of the
\* addresses each returns, the manager reads none of its bytes
Generated(policy) ==
  IF policy = USE_RESOLVABLE_ADDRESS THEN Addr(17, 81) ELSE Addr(17, 17)

\* enqueue_command_.Run(packet) for a cached command; `address` is the
\* address in the packet, EmptyAddress for the packet of a list mutator
enqueue_command(command, address) ==
  /\ hci_queue' = Append(hci_queue,
                         [id |-> command.id,
                          op_code |-> OpCodeOf(command.command_type),
                          address |-> address])
  /\ last_submitted' = command.id

\* a rotation that leaves le_address_ to the completion of its command
rotate_keeping_address(command) ==
  IF /\ address_policy # USE_RESOLVABLE_ADDRESS
     /\ address_policy # USE_NON_RESOLVABLE_ADDRESS
  THEN UNCHANGED <<address_rotation_alarm, le_address, le_address_type,
                   hci_queue, last_submitted>>
  ELSE /\ address_rotation_alarm' = "scheduled"
       /\ enqueue_command(command, Generated(address_policy))
       /\ UNCHANGED <<le_address, le_address_type>>

\* LeAddressManager::rotate_random_address
rotate_random_address(command) ==
  IF /\ address_policy # USE_RESOLVABLE_ADDRESS
     /\ address_policy # USE_NON_RESOLVABLE_ADDRESS
  THEN UNCHANGED <<address_rotation_alarm, le_address, le_address_type,
                   hci_queue,
                   last_submitted>>
  ELSE /\ address_rotation_alarm' = "scheduled"
       /\ enqueue_command(command, Generated(address_policy))
       /\ le_address' = Generated(address_policy)
       /\ le_address_type' = "RANDOM_DEVICE_ADDRESS"

\* LeAddressManager::handle_next_command
handle_next_command ==
  IF cached_commands = << >>
  THEN /\ fatal' = "ASSERT(!cached_commands_.empty())"
       /\ UNCHANGED <<cached_commands, address_rotation_alarm, le_address,
                      le_address_type,
                      hci_queue, last_submitted>>
  ELSE LET command == Head(cached_commands) IN
       /\ cached_commands' = Tail(cached_commands)
       /\ fatal' = fatal
       /\ IF command.command_type = ROTATE_RANDOM_ADDRESS
          THEN rotate_random_address(command)
          ELSE /\ enqueue_command(command, EmptyAddress)
               /\ UNCHANGED <<address_rotation_alarm, le_address,
                              le_address_type>>

\* the clients pause_registered_clients calls OnPause on
PauseTargets(clients) ==
  {c \in Clients : /\ clients[c] # NOT_REGISTERED
                   /\ clients[c] # PAUSED
                   /\ clients[c] # WAITING_FOR_PAUSE}

\* LeAddressManager::pause_registered_clients, on the map `clients`
pause_registered_clients(clients, op, arg) ==
  /\ registered_clients' =
       RangeForAssign(clients, PauseTargets(clients), WAITING_FOR_PAUSE)
  /\ pending_pause' = Notify(pending_pause, PauseTargets(clients))
  /\ observed' = Obs(op, arg, PauseTargets(clients), {})

\* LeAddressManager::prepare_to_rotate, on the map `clients`
prepare_to_rotate(clients, op, arg) ==
  /\ cached_commands' =
       Append(cached_commands,
              [id |-> next_id + 1, command_type |-> ROTATE_RANDOM_ADDRESS])
  /\ next_id' = next_id + 1
  /\ pause_registered_clients(clients, op, arg)

\* commands pushed so far or about to be pushed by a call already made
Reserved ==
  next_id
  + Cardinality({i \in DOMAIN handler_queue :
                   handler_queue[i].fn = "register_client"})
  + (IF pending_push = "none" THEN 0 ELSE 1)

HeadIs(fn) == /\ Running
              /\ handler_queue # << >>
              /\ Head(handler_queue).fn = fn

PopTask == handler_queue' = Tail(handler_queue)

(* --------------------------- the policy setters -------------------------- *)

\* commands submitted outside cached_commands_ (the static address set)
\* that are posted or not completed yet
InitialCommands ==
  Cardinality({i \in DOMAIN handler_queue :
                 handler_queue[i].fn = "enqueue_command"})
  + Cardinality({i \in DOMAIN hci_queue : hci_queue[i].id = 0})

\* a setter that takes any two most significant bits
StaticMsbUnchecked(address) == TRUE

\* (address[5] & BLE_ADDR_MASK) == BLE_ADDR_MASK
StaticMsbOk(address) ==
  (address[5] \div 64) * 64 = BLE_ADDR_MASK

\* the random part of the static address is all 0 or all 1
StaticRandomPartDegenerate(address) ==
  \/ /\ \A i \in 0..4 : address[i] = 0
     /\ address[5] = BLE_ADDR_MASK
  \/ \A i \in 0..5 : address[i] = 255

\* an alarm that comes armed from its constructor
ArmedAlarm == "scheduled"

\* std::make_unique<os::Alarm>(handler_): an alarm nothing is scheduled on
NewAlarm == "idle"

\* the rotation_irk, minimum_rotation_time and maximum_rotation_time the
\* policy setters are called with
RotationArgs ==
  [rotation_irk |-> "irk", minimum_rotation_time |-> 1000,
   maximum_rotation_time |-> 2000]

\* the AddressType of the fixed_address handed to the setters with a policy
FixedAddressType(policy) ==
  IF policy = USE_STATIC_ADDRESS THEN "RANDOM_DEVICE_ADDRESS"
  ELSE "PUBLIC_DEVICE_ADDRESS"

\* the switch of both policy setters, after address_policy_ is assigned
SetPolicySwitch(policy, fixed_address) ==
  /\ address_policy' = policy
  /\ IF policy \in {USE_NON_RESOLVABLE_ADDRESS, USE_RESOLVABLE_ADDRESS}
     THEN /\ rotation_irk' = RotationArgs.rotation_irk
          /\ minimum_rotation_time' = RotationArgs.minimum_rotation_time
          /\ maximum_rotation_time' = RotationArgs.maximum_rotation_time
     ELSE UNCHANGED rotation_vars
  /\ IF policy = USE_STATIC_ADDRESS
     THEN IF ~StaticMsbOk(fixed_address)
          THEN /\ fatal' = "ASSERT_LOG two most significant bits"
               /\ UNCHANGED <<handler_queue, address_rotation_alarm,
                              le_address, le_address_type>>
          ELSE IF StaticRandomPartDegenerate(fixed_address)
          THEN /\ fatal' = "LOG_ALWAYS_FATAL random part all 1 or all 0"
               /\ UNCHANGED <<handler_queue, address_rotation_alarm,
                              le_address, le_address_type>>
          ELSE /\ le_address' = fixed_address
               /\ le_address_type' = FixedAddressType(policy)
               /\ Post(Task("enqueue_command", fixed_address))
               /\ UNCHANGED <<fatal, address_rotation_alarm>>
     ELSE IF policy \in {USE_NON_RESOLVABLE_ADDRESS, USE_RESOLVABLE_ADDRESS}
     THEN /\ address_rotation_alarm' = NewAlarm
          /\ UNCHANGED <<fatal, handler_queue, le_address, le_address_type>>
     ELSE /\ le_address' = fixed_address
          /\ le_address_type' = FixedAddressType(policy)
          /\ UNCHANGED <<fatal, handler_queue, address_rotation_alarm>>

SetPolicyAbort(assertion) ==
  /\ fatal' = assertion
  /\ UNCHANGED <<address_policy, handler_queue, address_rotation_alarm,
                 le_address, le_address_type, rotation_vars>>

\* a setter without ASSERT(address_policy_ == AddressPolicy::POLICY_NOT_SET)
PolicyAlreadySetUnchecked == FALSE

\* ASSERT(address_policy_ == AddressPolicy::POLICY_NOT_SET)
PolicyAlreadySet == address_policy # POLICY_NOT_SET

\* LeAddressManager::SetPrivacyPolicyForInitiatorAddress
SetPrivacyPolicyForInitiatorAddress(policy, fixed_address) ==
  /\ Running
  /\ policy = USE_STATIC_ADDRESS => (CanPost /\ InitialCommands = 0)
  /\ IF PolicyAlreadySet
     THEN SetPolicyAbort("ASSERT(address_policy_ == POLICY_NOT_SET)")
     ELSE IF policy = POLICY_NOT_SET
     THEN SetPolicyAbort("ASSERT(address_policy != POLICY_NOT_SET)")
     ELSE IF Registered # {}
     THEN SetPolicyAbort("ASSERT_LOG(registered_clients_.empty())")
     ELSE SetPolicySwitch(policy, fixed_address)
  /\ observed' = Obs("SetPrivacyPolicyForInitiatorAddress", policy, {}, {})
  /\ UNCHANGED <<registered_clients, cached_commands, hci_queue, pending_push,
                 next_id, last_submitted, client_view, pending_pause,
                 pending_resume>>
  /\ UNCHANGED <<pure_call, hal_vars>>

\* LeAddressManager::SetPrivacyPolicyForInitiatorAddressForTest
SetPrivacyPolicyForInitiatorAddressForTest(policy, fixed_address) ==
  /\ Running
  /\ policy = USE_STATIC_ADDRESS => (CanPost /\ InitialCommands = 0)
  /\ IF policy = POLICY_NOT_SET
     THEN SetPolicyAbort("ASSERT(address_policy != POLICY_NOT_SET)")
     ELSE IF Registered # {}
     THEN SetPolicyAbort("ASSERT_LOG(registered_clients_.empty())")
     ELSE SetPolicySwitch(policy, fixed_address)
  /\ observed' =
       Obs("SetPrivacyPolicyForInitiatorAddressForTest", policy, {}, {})
  /\ UNCHANGED <<registered_clients, cached_commands, hci_queue, pending_push,
                 next_id, last_submitted, client_view, pending_pause,
                 pending_resume>>
  /\ UNCHANGED <<pure_call, hal_vars>>

\* the task posted by the static address case: enqueue_command_(packet)
enqueue_command_task ==
  /\ HeadIs("enqueue_command")
  /\ PopTask
  /\ hci_queue' = Append(hci_queue,
                         [id |-> 0, op_code |-> LE_SET_RANDOM_ADDRESS,
                          address |-> Head(handler_queue).arg])
  /\ observed' = Obs("enqueue_command", "none", {}, {})
  /\ UNCHANGED <<address_policy, registered_clients, cached_commands,
                 address_rotation_alarm, le_address, le_address_type,
                 pending_push, next_id,
                 last_submitted, client_view, pending_pause, pending_resume,
                 fatal>>
  /\ UNCHANGED other_vars

(* ------------------------ registration of clients ------------------------ *)

\* LeAddressManager::Register
Register(callback) ==
  /\ Running
  /\ CanPost
  /\ ~client_view[callback]
  /\ Reserved < MaxCommands
  /\ Post(Task("register_client", callback))
  /\ client_view' = [client_view EXCEPT ![callback] = TRUE]
  /\ pending_pause' = [pending_pause EXCEPT ![callback] = FALSE]
  /\ pending_resume' = [pending_resume EXCEPT ![callback] = FALSE]
  /\ observed' = Obs("Register", callback, {}, {})
  /\ UNCHANGED <<address_policy, registered_clients, cached_commands,
                 address_rotation_alarm, le_address, le_address_type,
                 hci_queue, pending_push,
                 next_id, last_submitted, fatal>>
  /\ UNCHANGED other_vars

\* registered_clients_.insert(pair(callback, RESUMED)): keeps an existing entry
Insert(clients, callback) ==
  IF clients[callback] # NOT_REGISTERED THEN clients
  ELSE [clients EXCEPT ![callback] = RESUMED]

\* a register_client that prepares a rotation under the rotating policies only
RegisterRotatesWhenPolicySet(policy) ==
  \/ policy = USE_RESOLVABLE_ADDRESS
  \/ policy = USE_NON_RESOLVABLE_ADDRESS

\* the policies under which register_client prepares a rotation
RegisterRotates(policy) ==
  \/ policy = POLICY_NOT_SET
  \/ policy = USE_RESOLVABLE_ADDRESS
  \/ policy = USE_NON_RESOLVABLE_ADDRESS

\* LeAddressManager::register_client
register_client ==
  /\ HeadIs("register_client")
  /\ PopTask
  /\ LET callback == Head(handler_queue).arg IN
     IF RegisterRotates(address_policy)
     THEN prepare_to_rotate(Insert(registered_clients, callback),
                            "register_client", callback)
     ELSE /\ registered_clients' = Insert(registered_clients, callback)
          /\ observed' = Obs("register_client", callback, {}, {})
          /\ UNCHANGED <<cached_commands, next_id, pending_pause>>
  /\ UNCHANGED <<address_policy, address_rotation_alarm, le_address,
                 le_address_type,
                 hci_queue, pending_push, last_submitted, client_view,
                 pending_resume, fatal>>
  /\ UNCHANGED other_vars

\* LeAddressManager::Unregister
Unregister(callback) ==
  /\ Running
  /\ CanPost
  /\ client_view[callback]
  /\ Post(Task("unregister_client", callback))
  /\ client_view' = [client_view EXCEPT ![callback] = FALSE]
  /\ pending_pause' = [pending_pause EXCEPT ![callback] = FALSE]
  /\ pending_resume' = [pending_resume EXCEPT ![callback] = FALSE]
  /\ observed' = Obs("Unregister", callback, {}, {})
  /\ UNCHANGED <<address_policy, registered_clients, cached_commands,
                 address_rotation_alarm, le_address, le_address_type,
                 hci_queue, pending_push,
                 next_id, last_submitted, fatal>>
  /\ UNCHANGED other_vars

\* LeAddressManager::unregister_client
unregister_client ==
  /\ HeadIs("unregister_client")
  /\ PopTask
  /\ LET callback == Head(handler_queue).arg
         erased == [registered_clients EXCEPT ![callback] = NOT_REGISTERED]
     IN /\ registered_clients' = erased
        /\ address_rotation_alarm' =
             IF /\ \A c \in Clients : erased[c] = NOT_REGISTERED
                /\ address_rotation_alarm # "null"
             THEN "idle" ELSE address_rotation_alarm
        /\ observed' = Obs("unregister_client", callback, {}, {})
  /\ UNCHANGED <<address_policy, cached_commands, hci_queue, pending_push,
                 next_id, last_submitted, client_view, pending_pause,
                 pending_resume, fatal, le_address, le_address_type>>
  /\ UNCHANGED other_vars

(* ---------------------------- acknowledgments ---------------------------- *)

\* LeAddressManager::AckPause, answering an OnPause the client received
AckPause(callback) ==
  /\ Running
  /\ CanPost
  /\ client_view[callback]
  /\ pending_pause[callback]
  /\ Post(Task("ack_pause", callback))
  /\ pending_pause' = [pending_pause EXCEPT ![callback] = FALSE]
  /\ observed' = Obs("AckPause", callback, {}, {})
  /\ UNCHANGED <<address_policy, registered_clients, cached_commands,
                 address_rotation_alarm, le_address, le_address_type,
                 hci_queue, pending_push,
                 next_id, last_submitted, client_view, pending_resume, fatal>>
  /\ UNCHANGED other_vars

\* LeAddressManager::AckPause, called with no OnPause to answer
RedundantAckPause(callback) ==
  /\ Running
  /\ CanPost
  /\ client_view[callback]
  /\ ~pending_pause[callback]
  /\ Post(Task("ack_pause", callback))
  /\ observed' = Obs("RedundantAckPause", callback, {}, {})
  /\ UNCHANGED <<address_policy, registered_clients, cached_commands,
                 address_rotation_alarm, le_address, le_address_type,
                 hci_queue, pending_push,
                 next_id, last_submitted, client_view, pending_pause,
                 pending_resume, fatal>>
  /\ UNCHANGED other_vars

\* LeAddressManager::AckResume, answering an OnResume the client received
AckResume(callback) ==
  /\ Running
  /\ CanPost
  /\ client_view[callback]
  /\ pending_resume[callback]
  /\ Post(Task("ack_resume", callback))
  /\ pending_resume' = [pending_resume EXCEPT ![callback] = FALSE]
  /\ observed' = Obs("AckResume", callback, {}, {})
  /\ UNCHANGED <<address_policy, registered_clients, cached_commands,
                 address_rotation_alarm, le_address, le_address_type,
                 hci_queue, pending_push,
                 next_id, last_submitted, client_view, pending_pause, fatal>>
  /\ UNCHANGED other_vars

\* LeAddressManager::AckResume, called with no OnResume to answer
RedundantAckResume(callback) ==
  /\ Running
  /\ CanPost
  /\ client_view[callback]
  /\ ~pending_resume[callback]
  /\ Post(Task("ack_resume", callback))
  /\ observed' = Obs("RedundantAckResume", callback, {}, {})
  /\ UNCHANGED <<address_policy, registered_clients, cached_commands,
                 address_rotation_alarm, le_address, le_address_type,
                 hci_queue, pending_push,
                 next_id, last_submitted, client_view, pending_pause,
                 pending_resume, fatal>>
  /\ UNCHANGED other_vars

\* the loop of ack_pause: every registered client is PAUSED
AllPaused(clients) ==
  \A c \in Clients : clients[c] # NOT_REGISTERED => clients[c] = PAUSED

\* LeAddressManager::ack_pause
ack_pause ==
  /\ HeadIs("ack_pause")
  /\ PopTask
  /\ LET callback == Head(handler_queue).arg IN
     /\ observed' = Obs("ack_pause", callback, {}, {})
     /\ IF registered_clients[callback] = NOT_REGISTERED
        THEN /\ fatal' = "ASSERT(registered_clients_.find(callback) != end)"
             /\ UNCHANGED <<registered_clients, cached_commands,
                            address_rotation_alarm, le_address, le_address_type,
                            hci_queue,
                            last_submitted>>
        ELSE LET acked == [registered_clients EXCEPT ![callback] = PAUSED] IN
             /\ registered_clients' = acked
             /\ IF AllPaused(acked)
                THEN handle_next_command
                ELSE UNCHANGED <<cached_commands, address_rotation_alarm,
                                 le_address, le_address_type,
                                 hci_queue, last_submitted,
                                 fatal>>
  /\ UNCHANGED <<address_policy, pending_push, next_id, client_view,
                 pending_pause, pending_resume>>
  /\ UNCHANGED other_vars

\* LeAddressManager::ack_resume
ack_resume ==
  /\ HeadIs("ack_resume")
  /\ PopTask
  /\ LET callback == Head(handler_queue).arg IN
     /\ observed' = Obs("ack_resume", callback, {}, {})
     /\ IF registered_clients[callback] = NOT_REGISTERED
        THEN /\ fatal' = "ASSERT(registered_clients_.find(callback) != end)"
             /\ UNCHANGED registered_clients
        ELSE /\ registered_clients' =
                  [registered_clients EXCEPT ![callback] = RESUMED]
             /\ UNCHANGED fatal
  /\ UNCHANGED <<address_policy, cached_commands, address_rotation_alarm,
                 le_address, le_address_type,
                 hci_queue, pending_push, next_id, last_submitted,
                 client_view, pending_pause, pending_resume>>
  /\ UNCHANGED other_vars

(* ------------------- pause, resume and the next command ------------------ *)

\* the task posted by the list mutators: pause_registered_clients
pause_registered_clients_task ==
  /\ HeadIs("pause_registered_clients")
  /\ PopTask
  /\ pause_registered_clients(registered_clients,
                              "pause_registered_clients", "none")
  /\ UNCHANGED <<address_policy, cached_commands, address_rotation_alarm,
                 le_address, le_address_type,
                 hci_queue, pending_push, next_id, last_submitted,
                 client_view, pending_resume, fatal>>
  /\ UNCHANGED other_vars

\* LeAddressManager::resume_registered_clients
resume_registered_clients ==
  /\ HeadIs("resume_registered_clients")
  /\ PopTask
  /\ IF cached_commands # << >>
     THEN /\ handle_next_command
          /\ observed' = Obs("resume_registered_clients", "none", {}, {})
          /\ UNCHANGED <<registered_clients, pending_resume>>
     ELSE /\ registered_clients' =
               RangeForAssign(registered_clients, Registered,
                              WAITING_FOR_RESUME)
          /\ pending_resume' = Notify(pending_resume, Registered)
          /\ observed' =
               Obs("resume_registered_clients", "none", {}, Registered)
          /\ UNCHANGED <<cached_commands, address_rotation_alarm, le_address,
                         le_address_type,
                         hci_queue, last_submitted, fatal>>
  /\ UNCHANGED <<address_policy, pending_push, next_id, client_view,
                 pending_pause>>
  /\ UNCHANGED other_vars

\* the task posted by the completion handler: handle_next_command
handle_next_command_task ==
  /\ HeadIs("handle_next_command")
  /\ PopTask
  /\ handle_next_command
  /\ observed' = Obs("handle_next_command", "none", {}, {})
  /\ UNCHANGED <<address_policy, registered_clients, pending_push, next_id,
                 client_view, pending_pause, pending_resume>>
  /\ UNCHANGED other_vars

\* the rotation alarm expires: prepare_to_rotate runs on the handler
AlarmFires ==
  /\ Running
  /\ address_rotation_alarm = "scheduled"
  /\ Reserved < MaxCommands
  /\ address_rotation_alarm' = "idle"
  /\ prepare_to_rotate(registered_clients, "prepare_to_rotate", "none")
  /\ UNCHANGED <<address_policy, handler_queue, hci_queue, pending_push,
                 last_submitted, client_view, pending_resume, fatal,
                 le_address, le_address_type>>
  /\ UNCHANGED other_vars

(* ---------------------------- the list mutators -------------------------- *)

\* a list mutator up to its Invoke(): the command is built, the pause posted
ListMutatorCall(command_type) ==
  /\ Running
  /\ CanPost
  /\ pending_push = "none"
  /\ Reserved < MaxCommands
  /\ Post(Task("pause_registered_clients", "none"))
  /\ pending_push' = command_type
  /\ observed' = Obs(command_type, "none", {}, {})
  /\ UNCHANGED <<address_policy, registered_clients, cached_commands,
                 address_rotation_alarm, le_address, le_address_type,
                 hci_queue, next_id,
                 last_submitted, client_view, pending_pause, pending_resume,
                 fatal>>
  /\ UNCHANGED other_vars

\* LeAddressManager::AddDeviceToConnectList
AddDeviceToConnectList == ListMutatorCall("ADD_DEVICE_TO_CONNECT_LIST")

\* LeAddressManager::ClearResolvingList
ClearResolvingList == ListMutatorCall("CLEAR_RESOLVING_LIST")

\* the last statement of a list mutator: cached_commands_.push(command)
ListMutatorPush ==
  /\ Running
  /\ pending_push # "none"
  /\ cached_commands' =
       Append(cached_commands,
              [id |-> next_id + 1, command_type |-> pending_push])
  /\ next_id' = next_id + 1
  /\ pending_push' = "none"
  /\ observed' = Obs("push", pending_push, {}, {})
  /\ UNCHANGED <<address_policy, registered_clients, address_rotation_alarm,
                 le_address, le_address_type,
                 handler_queue, hci_queue, last_submitted,
                 client_view, pending_pause, pending_resume, fatal>>
  /\ UNCHANGED other_vars

(* ------------------------------ completions ------------------------------ *)

\* a completion handler that releases the barrier for every command
AnyCommandReleases(op_code) == FALSE

\* the static address set needs no barrier released
IsInitialStaticSet(op_code) ==
  /\ op_code = LE_SET_RANDOM_ADDRESS
  /\ address_policy = USE_STATIC_ADDRESS

\* LeAddressManager::OnCommandComplete, for the oldest command not completed
OnCommandComplete(view) ==
  /\ Running
  /\ hci_queue # << >>
  /\ CanPost
  /\ hci_queue' = Tail(hci_queue)
  /\ observed' = Obs("OnCommandComplete", view, {}, {})
  /\ IF view = "INVALID"
     THEN UNCHANGED handler_queue
     ELSE IF IsInitialStaticSet(Head(hci_queue).op_code)
     THEN UNCHANGED handler_queue
     ELSE IF cached_commands = << >>
     THEN Post(Task("resume_registered_clients", "none"))
     ELSE Post(Task("handle_next_command", "none"))
  /\ UNCHANGED <<address_policy, registered_clients, cached_commands,
                 address_rotation_alarm, le_address, le_address_type,
                 pending_push, next_id,
                 last_submitted, client_view, pending_pause, pending_resume,
                 fatal>>
  /\ UNCHANGED other_vars

\* LeAddressManager::on_le_set_random_address_complete, the handler with
\* the checks of the view; no statement of the file passes it to a command
\* or calls it, so no step of the manager is a step of it
on_le_set_random_address_complete(view) ==
  /\ Running
  /\ hci_queue # << >>
  /\ CanPost
  /\ hci_queue' = Tail(hci_queue)
  /\ observed' = Obs("on_le_set_random_address_complete", view, {}, {})
  /\ IF view = "INVALID"
     THEN /\ fatal' = "LOG_ALWAYS_FATAL invalid packet"
          /\ UNCHANGED handler_queue
     ELSE IF view # "SUCCESS"
     THEN /\ fatal' = "LOG_ALWAYS_FATAL error code"
          /\ UNCHANGED handler_queue
     ELSE /\ UNCHANGED fatal
          /\ IF cached_commands = << >>
             THEN Post(Task("resume_registered_clients", "none"))
             ELSE Post(Task("handle_next_command", "none"))
  /\ UNCHANGED <<address_policy, registered_clients, cached_commands,
                 address_rotation_alarm, le_address, le_address_type,
                 pending_push, next_id,
                 last_submitted, client_view, pending_pause, pending_resume>>
  /\ UNCHANGED other_vars

(* ------------------------------ the getters ------------------------------ *)

\* LeAddressManager::GetCurrentAddress: returns le_address_
GetCurrentAddress ==
  /\ Running
  /\ observed' = Obs("GetCurrentAddress", "none", {}, {})
  /\ fatal' = IF address_policy = POLICY_NOT_SET
              THEN "ASSERT(address_policy_ != POLICY_NOT_SET)" ELSE fatal
  /\ UNCHANGED <<address_policy, registered_clients, cached_commands,
                 address_rotation_alarm, handler_queue, hci_queue,
                 pending_push, next_id, last_submitted, client_view,
                 pending_pause, pending_resume, le_address, le_address_type>>
  /\ UNCHANGED other_vars

\* a GetAnotherAddress that asks for a policy only
AnotherAddressWithAnyPolicy(policy) == policy # POLICY_NOT_SET

\* the ASSERT of GetAnotherAddress
AnotherAddressAllowed(policy) ==
  \/ policy = USE_NON_RESOLVABLE_ADDRESS
  \/ policy = USE_RESOLVABLE_ADDRESS

\* LeAddressManager::GetAnotherAddress: returns an address of generate_rpa()
GetAnotherAddress ==
  /\ Running
  /\ observed' = Obs("GetAnotherAddress", "none", {}, {})
  /\ fatal' = IF AnotherAddressAllowed(address_policy) THEN fatal
              ELSE "ASSERT(address_policy_ == USE_NON_RESOLVABLE_ADDRESS || ...)"
  /\ UNCHANGED <<address_policy, registered_clients, cached_commands,
                 address_rotation_alarm, handler_queue, hci_queue,
                 pending_push, next_id, last_submitted, client_view,
                 pending_pause, pending_resume, le_address, le_address_type>>
  /\ UNCHANGED other_vars

(* ------------------- the rotation interval (pure) ------------------------ *)

\* values of minimum_rotation_time_ and maximum_rotation_time_, in ms
RotationTimes == {0, 1000, 2000}

\* values os::GenerateRandom() returns
RandomWords == {0, 1, 253, 254, 255, 999, 1000, 1001, 65535, 2000000000}

\* a % b of C++ for a >= 0: the remainder of the division truncated to zero
Rem(a, b) == IF b > 0 THEN a % b ELSE a % (0 - b)

\* a % 0 is undefined: the division traps (SIGFPE), or the build computes
\* the remainder from a quotient of 0 (it is a) or yields 0
RemByZero(a) ==
  {[status |-> "SIGFPE", value |-> 0],
   [status |-> "returned", value |-> a],
   [status |-> "returned", value |-> 0]}

\* LeAddressManager::get_next_private_address_interval_ms: the outcomes of
\* a call with minimum_rotation_time_ = min_time, maximum_rotation_time_ =
\* max_time and the given random word
get_next_private_address_interval_ms(min_time, max_time, random) ==
  LET interval_random_part_max_ms == max_time - min_time
      random_ms ==
        IF interval_random_part_max_ms = 0
        THEN RemByZero(random)
        ELSE {[status |-> "returned",
               value |-> Rem(random, interval_random_part_max_ms)]}
  IN {[status |-> r.status,
       delay |-> IF r.status = "returned"
                 THEN min_time + r.value ELSE 0] :
      r \in random_ms}

\* rotate_random_address computes the delay of the alarm it schedules
IntervalCall ==
  \E min \in RotationTimes, max \in RotationTimes, random \in RandomWords :
    \E outcome \in get_next_private_address_interval_ms(min, max, random) :
      /\ pure_call = NoCall
      /\ pure_call' =
           [fn |-> "get_next_private_address_interval_ms",
            minimum_rotation_time |-> min, maximum_rotation_time |-> max,
            random |-> random, status |-> outcome.status,
            delay |-> outcome.delay]
      /\ UNCHANGED <<manager_vars, hal_vars>>

(* ------------------- the address generators (pure) ----------------------- *)

\* random words drawn by the loops of generate_nrpa in one call
MaxDraws == 2

\* x & ~BLE_ADDR_MASK on a byte
MaskTypeBits(x) == x % 64

\* a substitute that keeps a word as it is drawn
RedrawUnreduced(word) == word % 256

\* (uint8_t)(os::GenerateRandom() % 0xFE + 1)
Redraw(word) == ((word % 254) + 1) % 256

\* the bytes os::GenerateRandom<N>() fills arrays with
RandomBytes == {0, 17, 255}
RandomTopBytes == {0, 17, 63, 64, 192, 255}

\* the words drawn after the array
DrawWords == {0, 16, 253, 254}
DrawSeqs == [1..MaxDraws -> DrawWords]

\* the first three bytes of aes_128(rotation_irk_, prand): the model takes
\* them as given
Hashes == {<<0, 0, 0>>, <<255, 255, 255>>, <<17, 34, 51>>}

\* arrays of three bytes, prand[0..2]
Prands ==
  {[i \in 0..2 |-> IF i = 0 THEN b0 ELSE IF i = 1 THEN b1 ELSE b2] :
     b0 \in RandomBytes, b1 \in {0, 255}, b2 \in RandomTopBytes}

\* arrays of six bytes, random[0..5]
Randoms ==
  {[i \in 0..5 |-> IF i = 0 THEN b0 ELSE IF i = 5 THEN b5
                   ELSE IF i = 1 THEN b1 ELSE b2] :
     b0 \in RandomBytes, b1 \in {0, 255}, b2 \in {0, 255},
     b5 \in RandomTopBytes}

\* values of public_address_
PublicAddresses ==
  {[i \in 0..5 |-> IF i = 0 THEN 17 ELSE 0],
   [i \in 0..5 |-> IF i = 0 THEN 1 ELSE IF i = 5 THEN 63 ELSE 255],
   [i \in 0..5 |-> IF i = 5 THEN 192 ELSE 17]}

\* LeAddressManager::generate_rpa
generate_rpa(prand, word, hash) ==
  LET masked == MaskTypeBits(prand[2])
      degenerate ==
        \/ prand[0] = 0 /\ prand[1] = 0 /\ masked = 0
        \/ prand[0] = 255 /\ prand[1] = 255 /\ masked = 63
      prand0 == IF degenerate THEN Redraw(word) ELSE prand[0]
      prand2 == masked + 64
  IN [i \in 0..5 |->
        IF i = 3 THEN prand0 ELSE IF i = 4 THEN prand[1]
        ELSE IF i = 5 THEN prand2 ELSE hash[i + 1]]

\* the first part of generate_nrpa, up to address.FromOctets(random.data())
NrpaCandidate(random, word) ==
  LET masked == MaskTypeBits(random[5])
      degenerate ==
        \/ /\ \A i \in 0..4 : random[i] = 0
           /\ masked = 0
        \/ /\ \A i \in 0..4 : random[i] = 255
           /\ masked = 63
  IN [degenerate |-> degenerate,
      address |-> [i \in 0..5 |->
                     IF i = 5 THEN masked
                     ELSE IF i = 0 /\ degenerate THEN Redraw(word)
                     ELSE random[i]]]

\* a generate_nrpa that returns its first candidate
NrpaCollisionUnchecked(address, public_address) == FALSE

\* the condition of the loop of generate_nrpa: address == public_address_
NrpaCollides(address, public_address) == address = public_address

\* the loop of generate_nrpa with the words left to draw: it returns the
\* address, or is still looping when the words of the model are used up
RECURSIVE NrpaLoop(_, _, _, _)
NrpaLoop(address, public_address, words, redraws) ==
  IF ~NrpaCollides(address, public_address)
  THEN [status |-> "returned", address |-> address, redraws |-> redraws]
  ELSE IF words = << >>
  THEN [status |-> "looping", address |-> address, redraws |-> redraws]
  ELSE NrpaLoop([address EXCEPT ![0] = Redraw(Head(words))], public_address,
                Tail(words), redraws + 1)

\* LeAddressManager::generate_nrpa: `word` is drawn for a degenerate array,
\* `words` by the loop
generate_nrpa(random, word, words, public_address) ==
  LET candidate == NrpaCandidate(random, word)
      result == NrpaLoop(candidate.address, public_address, words, 0)
  IN [status |-> result.status, address |-> result.address,
      redraws |-> result.redraws, degenerate |-> candidate.degenerate]

\* rotate_random_address or GetAnotherAddress calls generate_rpa
GenerateRpaCall ==
  \E prand \in Prands, word \in DrawWords, hash \in Hashes :
    /\ pure_call = NoCall
    /\ pure_call' =
         [fn |-> "generate_rpa", prand |-> prand, word |-> word,
          status |-> "returned",
          address |-> generate_rpa(prand, word, hash)]
    /\ UNCHANGED <<manager_vars, hal_vars>>

\* rotate_random_address calls generate_nrpa
GenerateNrpaCall ==
  \E random \in Randoms, word \in DrawWords, words \in DrawSeqs,
     public_address \in PublicAddresses :
    LET result == generate_nrpa(random, word, words, public_address) IN
    /\ pure_call = NoCall
    /\ pure_call' =
         [fn |-> "generate_nrpa", random |-> random,
          public_address |-> public_address, status |-> result.status,
          address |-> result.address, redraws |-> result.redraws,
          degenerate |-> result.degenerate]
    /\ UNCHANGED <<manager_vars, hal_vars>>

(* ----------------- the rootcanal HAL: constants and frames --------------- *)

\* packets handed to the send functions over one run
MaxHandedPackets == 2
\* frames the peer writes over one run
MaxPeerFrames == 2
\* payload bytes of a frame the peer writes
MaxPayload == 1

kH4Command == 1
kH4Acl == 2
kH4Sco == 3
kH4Event == 4

kH4HeaderSize == 1
kHciAclHeaderSize == 4
kHciScoHeaderSize == 3
kHciEvtHeaderSize == 2
kBufSize == 1024

Min(a, b) == IF a < b THEN a ELSE b

\* the first n elements of a sequence, and the sequence without them
Take(seq, n) == SubSeq(seq, 1, n)
Drop(seq, n) == SubSeq(seq, n + 1, Len(seq))

\* the HciPackets the stack hands to the send functions
HciPackets == {<<7>>, <<8, 9>>}

\* payload bytes the peer sends
Payload(length) == [i \in 1..length |-> (160 + i) % 256]

\* the well-formed frames the peer writes: tag, header with the length of
\* the payload where the read path looks for it, payload
EventFrame(length) == <<kH4Event, 14, length>> \o Payload(length)
AclFrame(length) ==
  <<kH4Acl, 1, 32, length % 256, length \div 256>> \o Payload(length)
ScoFrame(length) == <<kH4Sco, 2, 0, length>> \o Payload(length)

PeerFrames ==
  UNION {{EventFrame(length), AclFrame(length), ScoFrame(length)} :
           length \in 0..MaxPayload}

HalRunning == hal_fatal = NoFatal

(* ----------------------- the rootcanal HAL: sending ---------------------- *)

\* calls of Stop over one run
MaxStops == 1

\* mutex_ is free: no Stop is between its lock and its return
MutexFree == stop_pc = "idle"

\* the variables of the HAL that only Start, Stop and the read callback in
\* two steps change
close_vars == <<btsnoop_logger, stop_pc, stops, read_packet, released_use>>

\* Start: ConnectToRootCanal gives a socket or INVALID_FD
Start ==
  /\ HalRunning
  /\ MutexFree
  /\ IF sock_fd # "INVALID_FD"
     THEN /\ hal_fatal' = "ASSERT(sock_fd_ == INVALID_FD)"
          /\ UNCHANGED <<sock_fd, read_registered, btsnoop_logger>>
     ELSE \/ /\ sock_fd' = "connected"
             /\ read_registered' = TRUE
             /\ btsnoop_logger' = "allocated"
             /\ UNCHANGED hal_fatal
          \/ /\ hal_fatal' = "ASSERT(sock_fd_ != INVALID_FD)"
             /\ UNCHANGED <<sock_fd, read_registered, btsnoop_logger>>
  /\ UNCHANGED <<incoming_packet_callback, write_registered,
                 hci_outgoing_queue, socket_written, wire, socket_readable,
                 handed, peer_wrote, received>>
  /\ UNCHANGED <<stop_pc, stops, read_packet, released_use, peer_closed>>
  /\ UNCHANGED <<manager_vars, pure_call>>

\* Stop, from taking mutex_ to releasing the capture sink (lines 139-141)
StopBegin ==
  /\ HalRunning
  /\ MutexFree
  /\ stops < MaxStops
  /\ btsnoop_logger' = "nullptr"
  /\ stop_pc' = "unregistering"
  /\ UNCHANGED <<sock_fd, incoming_packet_callback, read_registered,
                 write_registered, hci_outgoing_queue, socket_written, wire,
                 socket_readable, handed, peer_wrote, received, hal_fatal>>
  /\ UNCHANGED <<stops, read_packet, released_use, peer_closed>>
  /\ UNCHANGED <<manager_vars, pure_call>>

\* Stop, from Unregister to its return (lines 142-151): the reactable is
\* taken from the event loop, the receiver cleared and the socket closed,
\* which ends the connection with what it carried
StopEnd ==
  /\ HalRunning
  /\ stop_pc = "unregistering"
  /\ read_registered' = FALSE
  /\ write_registered' = FALSE
  /\ incoming_packet_callback' = "nullptr"
  /\ sock_fd' = "INVALID_FD"
  /\ wire' = << >>
  /\ socket_readable' = << >>
  /\ peer_closed' = FALSE
  /\ stop_pc' = "idle"
  /\ stops' = stops + 1
  /\ UNCHANGED <<hci_outgoing_queue, socket_written, handed, peer_wrote,
                 received, hal_fatal>>
  /\ UNCHANGED <<btsnoop_logger, read_packet, released_use>>
  /\ UNCHANGED <<manager_vars, pure_call>>

\* write_to_rootcanal_fd: the frame is queued, and the write callback is
\* registered when it is the only one
write_to_rootcanal_fd(packet) ==
  /\ hci_outgoing_queue' = Append(hci_outgoing_queue, packet)
  /\ write_registered' =
       IF Len(hci_outgoing_queue) + 1 = 1 THEN TRUE ELSE write_registered

\* packet.insert(packet.cbegin(), tag): the tag a send function inserts
InsertedTag(tag) == tag

\* sendHciCommand, sendAclData and sendScoData, under mutex_; the packet is
\* remembered with the number of Stops before it
Send(tag, packet) ==
  /\ HalRunning
  /\ MutexFree
  /\ Len(handed) < MaxHandedPackets
  /\ handed' =
       Append(handed, [tag |-> tag, packet |-> packet, epoch |-> stops])
  /\ IF sock_fd = "INVALID_FD"
     THEN /\ hal_fatal' = "ASSERT(sock_fd_ != INVALID_FD)"
          /\ UNCHANGED <<hci_outgoing_queue, write_registered>>
     ELSE /\ write_to_rootcanal_fd(<<InsertedTag(tag)>> \o packet)
          /\ UNCHANGED hal_fatal
  /\ UNCHANGED <<sock_fd, incoming_packet_callback, read_registered,
                 socket_written, wire, socket_readable, peer_wrote,
                 received>>
  /\ UNCHANGED <<close_vars, peer_closed>>
  /\ UNCHANGED <<manager_vars, pure_call>>

sendHciCommand == \E command \in HciPackets : Send(kH4Command, command)

sendAclData == \E data \in HciPackets : Send(kH4Acl, data)

sendScoData == \E data \in HciPackets : Send(kH4Sco, data)

\* what write(sock_fd_, data, size) returns on the non-blocking socket:
\* -1, or the number of bytes it took, which can be fewer than size
WriteResults(size) == {-1} \cup 1..size

\* the write callback registered by write_to_rootcanal_fd, under mutex_
on_write_ready ==
  /\ HalRunning
  /\ MutexFree
  /\ write_registered
  /\ hci_outgoing_queue # << >>
  /\ \E bytes_written \in WriteResults(Len(Head(hci_outgoing_queue))) :
       LET packet_to_send == Head(hci_outgoing_queue) IN
       /\ hci_outgoing_queue' = Tail(hci_outgoing_queue)
       /\ IF bytes_written = -1
          THEN /\ hal_fatal' = "abort()"
               /\ UNCHANGED <<socket_written, write_registered>>
          ELSE /\ socket_written' =
                    socket_written \o Take(packet_to_send, bytes_written)
               /\ write_registered' =
                    IF Tail(hci_outgoing_queue) = << >> THEN FALSE
                    ELSE write_registered
               /\ UNCHANGED hal_fatal
  /\ UNCHANGED <<sock_fd, incoming_packet_callback, read_registered, wire,
                 socket_readable, handed, peer_wrote, received>>
  /\ UNCHANGED <<close_vars, peer_closed>>
  /\ UNCHANGED <<manager_vars, pure_call>>

(* ---------------------- the rootcanal HAL: receiving --------------------- *)

\* the callbacks object the stack registers, or none
Callbacks == {"nullptr", "callbacks"}

\* a registration that takes every callback
ReceiverUnchecked(current, callback) == TRUE

\* ASSERT(incoming_packet_callback_ == nullptr && callback != nullptr)
ReceiverFree(current, callback) ==
  current = "nullptr" /\ callback # "nullptr"

RegisterCallback(callback) ==
  /\ HalRunning
  /\ MutexFree
  /\ IF ReceiverFree(incoming_packet_callback, callback)
     THEN /\ incoming_packet_callback' = callback
          /\ UNCHANGED hal_fatal
     ELSE /\ hal_fatal' =
               "ASSERT(incoming_packet_callback_ == nullptr && callback != nullptr)"
          /\ UNCHANGED incoming_packet_callback
  /\ UNCHANGED <<sock_fd, read_registered, write_registered,
                 hci_outgoing_queue, socket_written, wire, socket_readable,
                 handed, peer_wrote, received>>
  /\ UNCHANGED <<close_vars, peer_closed>>
  /\ UNCHANGED <<manager_vars, pure_call>>

registerIncomingPacketCallback ==
  \E callback \in Callbacks : RegisterCallback(callback)

\* the peer writes one of the given frames to its end of the connection
PeerWritesOneOf(frames) ==
  /\ HalRunning
  /\ sock_fd # "INVALID_FD"
  /\ ~peer_closed
  /\ \E frame \in frames :
       /\ wire' = wire \o frame
       /\ peer_wrote' = Append(peer_wrote, frame)
  /\ UNCHANGED <<sock_fd, incoming_packet_callback, read_registered,
                 write_registered, hci_outgoing_queue, socket_written,
                 socket_readable, handed, received, hal_fatal>>
  /\ UNCHANGED <<close_vars, peer_closed>>
  /\ UNCHANGED <<manager_vars, pure_call>>

\* frames behind a tag byte the read path has no branch for: the tag of a
\* command, an unassigned one and zero, each before the bytes of an event
UnknownTagFrames ==
  {<<tag>> \o EventFrame(0) : tag \in {0, kH4Command, kH4Event + 1}}

\* the peer writes a frame with such a tag
PeerWritesUnknownTag ==
  /\ Len(peer_wrote) < MaxPeerFrames
  /\ PeerWritesOneOf(UnknownTagFrames)

\* the peer writes one well-formed frame
PeerWrites ==
  /\ Len(peer_wrote) < MaxPeerFrames
  /\ PeerWritesOneOf(PeerFrames)

\* ACL frames the peer writes over one run, about as long as buf
MaxLongFrames == 1

\* payload lengths of ACL frames about as long as buf: the last that fits
\* with tag and header in kBufSize bytes, and the next ones
LongLengths == {1018, 1019, 1020, 1021}

\* the peer writes one ACL frame about as long as buf
PeerWritesLong ==
  /\ Len(peer_wrote) < MaxLongFrames
  /\ PeerWritesOneOf({AclFrame(length) : length \in LongLengths})

\* the peer closes the connection
PeerCloses ==
  /\ HalRunning
  /\ sock_fd # "INVALID_FD"
  /\ ~peer_closed
  /\ peer_closed' = TRUE
  /\ UNCHANGED <<sock_fd, incoming_packet_callback, read_registered,
                 write_registered, hci_outgoing_queue, socket_written, wire,
                 socket_readable, handed, peer_wrote, received, hal_fatal>>
  /\ UNCHANGED close_vars
  /\ UNCHANGED <<manager_vars, pure_call>>

\* the stream carries count of the bytes in flight to the driver's socket
ArriveBytes(count) ==
  /\ HalRunning
  /\ count \in 1..Len(wire)
  /\ socket_readable' = socket_readable \o Take(wire, count)
  /\ wire' = Drop(wire, count)
  /\ UNCHANGED <<sock_fd, incoming_packet_callback, read_registered,
                 write_registered, hci_outgoing_queue, socket_written,
                 handed, peer_wrote, received, hal_fatal>>
  /\ UNCHANGED <<close_vars, peer_closed>>
  /\ UNCHANGED <<manager_vars, pure_call>>

\* the stream carries some of the bytes in flight to the driver's socket
Arrive == \E count \in 1..Len(wire) : ArriveBytes(count)

\* the sizes in which the stream carries a long frame
BurstSizes == {1, 4, 5, 1019, 1023, 1024, 1025, 1026}

\* the stream carries one burst to the socket, which the driver has emptied
ArriveBurst ==
  /\ socket_readable = << >>
  /\ \E count \in BurstSizes : ArriveBytes(count)

\* the end of the stream has reached the socket
EndOfStream == peer_closed /\ wire = << >>

\* recv(sock_fd_, buf, size, 0) on the non-blocking stream socket: the bytes
\* that are there, up to size; with none there and size > 0, 0 at the end
\* of the stream and -1 before it
recv(readable, size, eof) ==
  IF size = 0
  THEN [received_size |-> 0, data |-> << >>, rest |-> readable]
  ELSE IF readable = << >>
  THEN [received_size |-> IF eof THEN 0 ELSE -1, data |-> << >>,
        rest |-> readable]
  ELSE [received_size |-> Min(size, Len(readable)),
        data |-> Take(readable, Min(size, Len(readable))),
        rest |-> Drop(readable, Min(size, Len(readable)))]

HeaderSize(tag) ==
  CASE tag = kH4Event -> kHciEvtHeaderSize
    [] tag = kH4Acl -> kHciAclHeaderSize
    [] tag = kH4Sco -> kHciScoHeaderSize

\* the length the header declares; header[i] is buf[i], the tag being buf[0]
TotalLength(tag, header) ==
  CASE tag = kH4Event -> header[2]
    [] tag = kH4Acl -> (header[4] * 256 + header[3]) % 65536
    [] tag = kH4Sco -> header[3]

CallbackOf(tag) ==
  CASE tag = kH4Event -> "hciEventReceived"
    [] tag = kH4Acl -> "aclDataReceived"
    [] tag = kH4Sco -> "scoDataReceived"

\* the read callback aborted with the given message, having left rest
Aborted(message, rest) ==
  [fatal |-> message, rest |-> rest, callback |-> "none", packet |-> << >>]

\* the read callback built receivedHciPacket for the callback of the tag
Built(tag, packet, rest) ==
  [fatal |-> NoFatal, rest |-> rest, callback |-> CallbackOf(tag),
   packet |-> packet]

\* the end in buf of the payload recv of a branch: its offset
\* kH4HeaderSize + header size plus the total length it asks for
RequestEnd(tag, header) ==
  kH4HeaderSize + HeaderSize(tag) + TotalLength(tag, header)

\* recv stored more payload bytes than buf has room for behind the header
StoredBeyondBuf(tag, stored) ==
  stored > kBufSize - kH4HeaderSize - HeaderSize(tag)

\* the branch of incoming_packet_received for one of the three tags, up to
\* receivedHciPacket: the outcomes it can have.  A payload stored beyond
\* the end of buf is undefined behaviour: the callback aborts at one of its
\* assertions, or is killed, or goes on with what it read.
ReceivePacket(tag, readable, eof) ==
  LET header == recv(readable, HeaderSize(tag), eof) IN
  IF header.received_size # HeaderSize(tag)
  THEN {Aborted("ASSERT_LOG: malformed header received", header.rest)}
  ELSE LET total_length == TotalLength(tag, header.data)
           payload == recv(header.rest, total_length, eof)
           packet == header.data \o payload.data
       IN
       IF StoredBeyondBuf(tag, payload.received_size)
       THEN {Aborted("ASSERT_LOG: malformed length received", payload.rest),
             Aborted("ASSERT_LOG: packet too long", payload.rest),
             Aborted("SIGSEGV", payload.rest),
             Built(tag, packet, payload.rest)}
       ELSE IF payload.received_size # total_length
       THEN {Aborted("ASSERT_LOG: malformed length received", payload.rest)}
       ELSE IF /\ tag = kH4Acl
               /\ total_length >
                    kBufSize - kH4HeaderSize - kHciAclHeaderSize
       THEN {Aborted("ASSERT_LOG: packet too long", payload.rest)}
       ELSE {Built(tag, packet, payload.rest)}

\* incoming_packet_received up to receivedHciPacket (lines 187-213, 219-231,
\* 237-246): the outcomes it can have
ReadOutcomes ==
  IF incoming_packet_callback = "nullptr"
  THEN {Aborted("ASSERT(incoming_packet_callback_ != nullptr)",
                socket_readable)}
  ELSE LET tag == recv(socket_readable, kH4HeaderSize, EndOfStream) IN
       IF tag.received_size = 0
       THEN {Aborted("raise(SIGINT)", socket_readable)}
       ELSE IF tag.data[1] \in {kH4Event, kH4Acl, kH4Sco}
       THEN ReceivePacket(tag.data[1], tag.rest, EndOfStream)
       ELSE {[fatal |-> NoFatal, rest |-> tag.rest, callback |-> "none",
              packet |-> << >>]}

\* the reactor finds the socket readable and the read callback registered
ReadReady ==
  /\ HalRunning
  /\ read_registered
  /\ read_packet = NoPacket
  /\ socket_readable # << >> \/ EndOfStream

\* the read callback of the reactor in one step: capture and the callback
\* of the receiver follow receivedHciPacket at once
incoming_packet_received ==
  /\ ReadReady
  /\ \E outcome \in ReadOutcomes :
       /\ socket_readable' = outcome.rest
       /\ hal_fatal' = outcome.fatal
       /\ received' =
            IF outcome.callback = "none" THEN received
            ELSE Append(received, [callback |-> outcome.callback,
                                   packet |-> outcome.packet])
  /\ UNCHANGED <<sock_fd, incoming_packet_callback, read_registered,
                 write_registered, hci_outgoing_queue, socket_written, wire,
                 handed, peer_wrote>>
  /\ UNCHANGED <<close_vars, peer_closed>>
  /\ UNCHANGED <<manager_vars, pure_call>>

\* the read callback beside a Stop on another thread, first step: it takes
\* no lock, and holds receivedHciPacket at line 213, 231 or 246
incoming_packet_received_recv ==
  /\ ReadReady
  /\ \E outcome \in ReadOutcomes :
       /\ socket_readable' = outcome.rest
       /\ hal_fatal' = outcome.fatal
       /\ read_packet' =
            IF outcome.callback = "none" THEN NoPacket
            ELSE [callback |-> outcome.callback, packet |-> outcome.packet]
  /\ UNCHANGED <<sock_fd, incoming_packet_callback, read_registered,
                 write_registered, hci_outgoing_queue, socket_written, wire,
                 handed, peer_wrote, received>>
  /\ UNCHANGED <<btsnoop_logger, stop_pc, stops, released_use, peer_closed>>
  /\ UNCHANGED <<manager_vars, pure_call>>

\* what the second step of the read callback uses that Stop has released
UsedAfterRelease ==
  IF btsnoop_logger # "allocated" THEN "btsnoop_logger_"
  ELSE IF incoming_packet_callback = "nullptr"
  THEN "incoming_packet_callback_"
  ELSE "none"

\* second step: btsnoop_logger_->capture and the callback of the receiver
\* (lines 214-216, 232-234, 247-249).  A call through a deleted or null
\* pointer is undefined behaviour: the process is killed, or the call goes
\* on while there is a receiver to call.
incoming_packet_received_deliver ==
  /\ HalRunning
  /\ read_packet # NoPacket
  /\ read_packet' = NoPacket
  /\ released_use' =
       IF UsedAfterRelease # "none" THEN UsedAfterRelease ELSE released_use
  /\ \/ /\ UsedAfterRelease # "none"
        /\ hal_fatal' = "SIGSEGV"
        /\ UNCHANGED received
     \/ /\ incoming_packet_callback # "nullptr"
        /\ received' = Append(received, read_packet)
        /\ UNCHANGED hal_fatal
  /\ UNCHANGED <<sock_fd, incoming_packet_callback, read_registered,
                 write_registered, hci_outgoing_queue, socket_written, wire,
                 socket_readable, handed, peer_wrote>>
  /\ UNCHANGED <<btsnoop_logger, stop_pc, stops, peer_closed>>
  /\ UNCHANGED <<manager_vars, pure_call>>

(* ---------------------------- specifications ----------------------------- *)

\* the stack in production and clients that acknowledge the callbacks they
\* receive
Next ==
  \/ \E p \in AddressPolicy : \E a \in AddressesFor(p) :
       SetPrivacyPolicyForInitiatorAddress(p, a)
  \/ enqueue_command_task
  \/ \E c \in Clients : Register(c)
  \/ register_client
  \/ \E c \in Clients : Unregister(c)
  \/ unregister_client
  \/ \E c \in Clients : AckPause(c)
  \/ ack_pause
  \/ \E c \in Clients : AckResume(c)
  \/ ack_resume
  \/ pause_registered_clients_task
  \/ resume_registered_clients
  \/ handle_next_command_task
  \/ AlarmFires
  \/ AddDeviceToConnectList
  \/ ClearResolvingList
  \/ ListMutatorPush
  \/ \E v \in CommandCompleteView : OnCommandComplete(v)

Spec == Init /\ [][Next]_vars

\* the same with the policy setter of the cert tests
TestNext ==
  \/ Next
  \/ \E p \in AddressPolicy : \E a \in AddressesFor(p) :
       SetPrivacyPolicyForInitiatorAddressForTest(p, a)

TestSpec == Init /\ [][TestNext]_vars

\* a step of the handler thread: the task at the head of its queue
HandlerStep ==
  \/ enqueue_command_task
  \/ register_client
  \/ ack_pause
  \/ ack_resume
  \/ pause_registered_clients_task
  \/ resume_registered_clients
  \/ handle_next_command_task

\* production while no client leaves and every completion event is valid
LiveNext ==
  \/ \E p \in AddressPolicy : \E a \in AddressesFor(p) :
       SetPrivacyPolicyForInitiatorAddress(p, a)
  \/ \E c \in Clients : Register(c)
  \/ \E c \in Clients : AckPause(c)
  \/ \E c \in Clients : AckResume(c)
  \/ HandlerStep
  \/ AlarmFires
  \/ AddDeviceToConnectList
  \/ ClearResolvingList
  \/ ListMutatorPush
  \/ \E v \in {"SUCCESS", "ERROR_STATUS"} : OnCommandComplete(v)

\* the handler runs the tasks posted to it, a list mutator returns, clients
\* acknowledge the callbacks they received, submitted commands complete
LiveSpec ==
  /\ Init
  /\ [][LiveNext]_vars
  /\ WF_vars(HandlerStep)
  /\ WF_vars(ListMutatorPush)
  /\ \A c \in Clients : WF_vars(AckPause(c)) /\ WF_vars(AckResume(c))
  /\ WF_vars(OnCommandComplete("SUCCESS"))

\* the same with clients that leave
LeaveNext ==
  \/ LiveNext
  \/ \E c \in Clients : Unregister(c)
  \/ unregister_client

\* the handler also runs unregister_client when it is posted
LeaveSpec ==
  /\ Init
  /\ [][LeaveNext]_vars
  /\ WF_vars(HandlerStep)
  /\ WF_vars(unregister_client)
  /\ WF_vars(ListMutatorPush)
  /\ \A c \in Clients : WF_vars(AckPause(c)) /\ WF_vars(AckResume(c))
  /\ WF_vars(OnCommandComplete("SUCCESS"))

\* production with clients that also acknowledge what they were not sent
AnyAckNext ==
  \/ Next
  \/ \E c \in Clients : RedundantAckPause(c)
  \/ \E c \in Clients : RedundantAckResume(c)

AnyAckSpec == Init /\ [][AnyAckNext]_vars

\* production with callers of the getters
GetterNext ==
  \/ Next
  \/ GetCurrentAddress
  \/ GetAnotherAddress

GetterSpec == Init /\ [][GetterNext]_vars

\* one call of a pure function of the file, on any input
PureNext ==
  \/ IntervalCall
  \/ GenerateRpaCall
  \/ GenerateNrpaCall

PureSpec == Init /\ [][PureNext]_vars

\* the send path of the HAL: the stack's threads and the write callback
HalSendNext ==
  \/ Start
  \/ sendHciCommand
  \/ sendAclData
  \/ sendScoData
  \/ on_write_ready

HalSendSpec == Init /\ [][HalSendNext]_vars

\* the receive path of the HAL: the peer, the stream and the read callback
HalReceiveNext ==
  \/ Start
  \/ registerIncomingPacketCallback
  \/ PeerWrites
  \/ Arrive
  \/ incoming_packet_received

HalReceiveSpec == Init /\ [][HalReceiveNext]_vars

\* the receive path of the HAL with a peer that also sends unknown tags
HalTagNext ==
  \/ HalReceiveNext
  \/ PeerWritesUnknownTag

HalTagSpec == Init /\ [][HalTagNext]_vars

\* the receive path of the HAL with ACL frames about as long as buf
HalLongNext ==
  \/ Start
  \/ registerIncomingPacketCallback
  \/ PeerWritesLong
  \/ PeerCloses
  \/ ArriveBurst
  \/ incoming_packet_received

HalLongSpec == Init /\ [][HalLongNext]_vars

\* the HAL opened, used for sending and closed by the stack's threads
HalCloseSendNext ==
  \/ Start
  \/ StopBegin
  \/ StopEnd
  \/ registerIncomingPacketCallback
  \/ sendHciCommand
  \/ sendAclData
  \/ sendScoData
  \/ on_write_ready

HalCloseSendSpec == Init /\ [][HalCloseSendNext]_vars

\* the HAL closed by a thread of the stack while the loop thread reads
HalCloseReceiveNext ==
  \/ Start
  \/ StopBegin
  \/ StopEnd
  \/ registerIncomingPacketCallback
  \/ PeerWrites
  \/ Arrive
  \/ incoming_packet_received_recv
  \/ incoming_packet_received_deliver

HalCloseReceiveSpec == Init /\ [][HalCloseReceiveNext]_vars

TypeOK ==
  /\ address_policy \in AddressPolicy
  /\ \A c \in Clients : registered_clients[c] \in ClientState \cup {NOT_REGISTERED}
  /\ Len(cached_commands) <= MaxCommands
  /\ Len(handler_queue) <= MaxTasks
  /\ next_id \in 0..MaxCommands
  /\ last_submitted \in 0..MaxCommands

(* ------------------------------- claims ---------------------------------- *)

\* the cached commands submitted to the controller and not completed yet
UnconfirmedCached == {i \in DOMAIN hci_queue : hci_queue[i].id # 0}

\* C1: in every reachable state at most one cached command has been
\* submitted without its completion having been handled.
C1_AtMostOneUnconfirmed == Cardinality(UnconfirmedCached) <= 1

\* a step submits a cached command to the controller
SubmitsCached == last_submitted' # last_submitted

\* C2: a cached command is submitted only in a state where every registered
\* client is recorded Paused.
C2_SubmitOnlyWhenAllPaused ==
  [][SubmitsCached => AllPaused(registered_clients')]_vars

\* C3: cached commands are submitted in the order they were pushed, one at
\* a time, each only after the completion of the one submitted before it.
C3_FifoOneAtATime ==
  [][SubmitsCached =>
       /\ cached_commands # << >>
       /\ last_submitted' = Head(cached_commands).id
       /\ last_submitted' > last_submitted
       /\ \A i \in DOMAIN cached_commands' :
            cached_commands'[i].id > last_submitted'
       /\ UnconfirmedCached = {}]_vars

\* C5: while the cached queue is non-empty or a submitted cached command is
\* unconfirmed, no OnResume is sent and no client recorded Paused is recorded
\* in another state.
C5_NoResumeWhileWorkPending ==
  [][(cached_commands # << >> \/ UnconfirmedCached # {}) =>
       /\ observed'.OnResume = {}
       /\ \A c \in Clients :
            registered_clients[c] = PAUSED =>
              registered_clients'[c] \in {PAUSED, NOT_REGISTERED}]_vars

\* the completion of a cached set-random-address command is handled while
\* the cached queue is empty
RotationCompletesOnEmptyQueue ==
  /\ observed'.op = "OnCommandComplete"
  /\ hci_queue # << >>
  /\ Head(hci_queue).id # 0
  /\ Head(hci_queue).op_code = LE_SET_RANDOM_ADDRESS
  /\ cached_commands = << >>

\* C6: when a set-random-address command completes with the cached queue
\* empty, it is the one command submitted for its cycle, the completion
\* submits none, and a client receives one OnResume for it, not a second one
\* on top of one it has not acknowledged.
C6_OneCommandOneResume ==
  [][/\ RotationCompletesOnEmptyQueue =>
          /\ Cardinality(UnconfirmedCached) = 1
          /\ ~SubmitsCached
     /\ \A c \in observed'.OnResume : ~pending_resume[c]]_vars

\* C7: no OnResume is sent while a registered client has an OnPause it has
\* not acknowledged.
C7_NoResumeWhilePauseUnacked ==
  [][observed'.OnResume # {} =>
       \A c \in Registered : ~pending_pause[c]]_vars

\* with a policy set, the handler runs ack_pause for a client it already
\* records as Paused
SecondAckPause ==
  /\ address_policy # POLICY_NOT_SET
  /\ observed'.op = "ack_pause"
  /\ handler_queue # << >>
  /\ Head(handler_queue).fn = "ack_pause"
  /\ registered_clients[Head(handler_queue).arg] = PAUSED

\* C8: an ackPause for a client already Paused is a no-op: the client stays
\* Paused, nothing is dequeued or submitted and nothing aborts.
C8_SecondAckPauseIsNoOp ==
  [][SecondAckPause =>
       /\ registered_clients' = registered_clients
       /\ cached_commands' = cached_commands
       /\ hci_queue' = hci_queue
       /\ fatal' = NoFatal]_vars

\* command `id` has just been pushed to the cached queue while a client is
\* registered, under a policy without rotation alarm
PushedWithClient(id) ==
  /\ observed.op = "push"
  /\ cached_commands # << >>
  /\ cached_commands[Len(cached_commands)].id = id
  /\ Registered # {}
  /\ address_policy \in {USE_PUBLIC_ADDRESS, USE_STATIC_ADDRESS}

\* C4: every command pushed to the cached queue while a client is registered
\* is eventually submitted (unless the process aborts), when clients
\* acknowledge what they are sent and submitted commands complete.
C4_PushedCommandEventuallySubmitted ==
  \A id \in 1..MaxCommands :
    PushedWithClient(id) ~> (last_submitted >= id \/ ~Running)

\* the assertions of the policy setters that precede the assignment
SetterAborts ==
  {"ASSERT(address_policy_ == POLICY_NOT_SET)",
   "ASSERT(address_policy != POLICY_NOT_SET)",
   "ASSERT_LOG(registered_clients_.empty())"}

\* C9 (as claimed): once the policy has left the not-set value, no call
\* that returns changes it.
C9_PolicyNeverChangesOnceSet ==
  [][(address_policy # POLICY_NOT_SET /\ fatal' = NoFatal) =>
       address_policy' = address_policy]_vars

\* C9 (amended): the policy never returns to not-set and changes only while
\* no client is registered; once set, only
\* SetPrivacyPolicyForInitiatorAddressForTest changes it, and a second
\* SetPrivacyPolicyForInitiatorAddress call, a call of either setter with the
\* not-set policy and a call of either setter while a client is registered
\* abort and leave the policy as it was.
C9_PolicySetOnceExceptForTest ==
  [][/\ address_policy' # address_policy =>
          /\ address_policy' # POLICY_NOT_SET
          /\ Registered = {}
          /\ \/ address_policy = POLICY_NOT_SET
             \/ observed'.op = "SetPrivacyPolicyForInitiatorAddressForTest"
     /\ ( /\ observed'.op = "SetPrivacyPolicyForInitiatorAddress"
          /\ address_policy # POLICY_NOT_SET )
          => fatal' = "ASSERT(address_policy_ == POLICY_NOT_SET)"
     /\ ( /\ observed'.op \in {"SetPrivacyPolicyForInitiatorAddress",
                               "SetPrivacyPolicyForInitiatorAddressForTest"}
          /\ Registered # {} )
          => fatal' \in SetterAborts
     /\ ( \E a \in FixedAddresses :
            \/ SetPrivacyPolicyForInitiatorAddress(POLICY_NOT_SET, a)
            \/ SetPrivacyPolicyForInitiatorAddressForTest(POLICY_NOT_SET, a) )
          => fatal' \in SetterAborts
     /\ fatal' \in SetterAborts => address_policy' = address_policy]_vars

\* a second SetPrivacyPolicyForInitiatorAddress call has aborted
C9_Witness ==
  /\ observed.op = "SetPrivacyPolicyForInitiatorAddress"
  /\ address_policy \in {USE_STATIC_ADDRESS, USE_RESOLVABLE_ADDRESS}
  /\ fatal = "ASSERT(address_policy_ == POLICY_NOT_SET)"

\* the handler runs register_client while no policy has been set
RegistersBeforePolicy ==
  /\ observed'.op = "register_client"
  /\ handler_queue # << >>
  /\ Head(handler_queue).fn = "register_client"
  /\ address_policy = POLICY_NOT_SET

\* C10 (as claimed): registering before a policy has been set aborts at the
\* register call: no client is added, no command cached, no client notified.
C10_RegisterBeforePolicyIsFatal ==
  [][RegistersBeforePolicy =>
       /\ fatal' # NoFatal
       /\ registered_clients' = registered_clients
       /\ cached_commands' = cached_commands
       /\ observed'.OnPause = {}]_vars

\* C10 (amended): registering before a policy has been set does not abort at
\* the register call: the client is added as Resumed, a rotate command is
\* cached and the client is sent OnPause; the error is fatal only at a later
\* call of a policy setter, which finds a client registered.
C10_RegisterBeforePolicyDetectedBySetter ==
  [][/\ RegistersBeforePolicy =>
          LET callback == Head(handler_queue).arg IN
          /\ fatal' = NoFatal
          /\ registered_clients' =
               [registered_clients EXCEPT ![callback] = RESUMED]
          /\ cached_commands' =
               Append(cached_commands,
                      [id |-> next_id + 1,
                       command_type |-> ROTATE_RANDOM_ADDRESS])
          /\ callback \in observed'.OnPause
     /\ ( /\ observed'.op \in {"SetPrivacyPolicyForInitiatorAddress",
                               "SetPrivacyPolicyForInitiatorAddressForTest"}
          /\ Registered # {} )
          => /\ fatal' \in SetterAborts
             /\ address_policy' = address_policy]_vars

\* a client has registered with no policy set, and has been sent OnPause
C10_Witness ==
  /\ observed.op = "register_client"
  /\ address_policy = POLICY_NOT_SET
  /\ observed.OnPause # {}
  /\ cached_commands # << >>
  /\ fatal = NoFatal

\* the two most significant bits of the 48-bit address are 11 and its
\* other 46 bits are neither all 0 nor all 1
WellFormedStatic(address) ==
  /\ address[5] \div 64 = 3
  /\ ~( /\ \A i \in 0..4 : address[i] = 0
        /\ address[5] % 64 = 0 )
  /\ ~( /\ \A i \in 0..4 : address[i] = 255
        /\ address[5] % 64 = 63 )

\* the static address commands handed to enqueue_command_, not completed
StaticSets(queue) == {i \in DOMAIN queue : queue[i].id = 0}

\* C11: a first SetPrivacyPolicyForInitiatorAddress call with
\* USE_STATIC_ADDRESS, made before any registration, is accepted if the
\* address is well formed and is fatal if not; when accepted le_address_ is
\* the fixed address and one set-random-address command with that address is
\* posted, which the handler submits once.
C11_StaticAddressAcceptedIffWellFormed ==
  [][/\ \A a \in FixedAddresses :
          ( /\ SetPrivacyPolicyForInitiatorAddress(USE_STATIC_ADDRESS, a)
            /\ address_policy = POLICY_NOT_SET
            /\ Registered = {} )
          => IF WellFormedStatic(a)
             THEN /\ fatal' = NoFatal
                  /\ le_address' = a
                  /\ Len(handler_queue') = Len(handler_queue) + 1
                  /\ handler_queue'[Len(handler_queue')].fn =
                       "enqueue_command"
                  /\ handler_queue'[Len(handler_queue')].arg = a
             ELSE /\ fatal' # NoFatal
                  /\ handler_queue' = handler_queue
                  /\ hci_queue' = hci_queue
     /\ ( /\ Len(handler_queue') > Len(handler_queue)
          /\ handler_queue'[Len(handler_queue')].fn = "enqueue_command" )
          => /\ observed'.op = "SetPrivacyPolicyForInitiatorAddress"
             /\ address_policy = POLICY_NOT_SET
     /\ ( /\ Len(hci_queue') > Len(hci_queue)
          /\ hci_queue'[Len(hci_queue')].id = 0 )
          => /\ hci_queue' =
                  Append(hci_queue,
                         [id |-> 0, op_code |-> LE_SET_RANDOM_ADDRESS,
                          address |-> le_address])
             /\ Cardinality(StaticSets(hci_queue')) = 1
             /\ handler_queue' = Tail(handler_queue)]_vars

\* the set-random-address command of an accepted static address has been
\* submitted
C11_Witness ==
  /\ observed.op = "enqueue_command"
  /\ address_policy = USE_STATIC_ADDRESS
  /\ hci_queue # << >>
  /\ hci_queue[Len(hci_queue)].id = 0
  /\ hci_queue[Len(hci_queue)].address = le_address
  /\ WellFormedStatic(le_address)
  /\ fatal = NoFatal

\* the handler runs register_client with a policy set
RegistersWithPolicy ==
  /\ observed'.op = "register_client"
  /\ handler_queue # << >>
  /\ Head(handler_queue).fn = "register_client"
  /\ address_policy # POLICY_NOT_SET

\* a rotated address has been established: rotate_random_address has
\* assigned le_address_
RotatedAddressEstablished ==
  /\ address_policy \in {USE_RESOLVABLE_ADDRESS, USE_NON_RESOLVABLE_ADDRESS}
  /\ le_address # EmptyAddress

\* C12: register_client adds the client as Resumed; it caches a rotate
\* command and sends OnPause only when the policy is Resolvable or
\* NonResolvable and no rotated address has been established yet; otherwise
\* (an address exists, or the policy is Public or Static) it caches nothing
\* and notifies nobody.
C12_RegisterRotatesOnlyWithoutAddress ==
  [][RegistersWithPolicy =>
       LET callback == Head(handler_queue).arg IN
       /\ registered_clients'[callback] = RESUMED
       /\ IF /\ address_policy \in {USE_RESOLVABLE_ADDRESS,
                                    USE_NON_RESOLVABLE_ADDRESS}
             /\ ~RotatedAddressEstablished
          THEN /\ Len(cached_commands') = Len(cached_commands) + 1
               /\ cached_commands'[Len(cached_commands')].command_type =
                    ROTATE_RANDOM_ADDRESS
               /\ callback \in observed'.OnPause
          ELSE /\ cached_commands' = cached_commands
               /\ observed'.OnPause = {}]_vars

\* the handler runs unregister_client
Unregisters ==
  /\ observed'.op = "unregister_client"
  /\ handler_queue # << >>
  /\ Head(handler_queue).fn = "unregister_client"

\* C13: unregister_client removes exactly its client and leaves the other
\* clients' states as they were; it cancels the rotation alarm if and only if
\* no client remains; and no rotation alarm is pending (so none fires) while
\* no client is registered.
C13_NoAlarmWithoutClients ==
  [][/\ Unregisters =>
          LET callback == Head(handler_queue).arg IN
          /\ registered_clients' =
               [registered_clients EXCEPT ![callback] = NOT_REGISTERED]
          /\ IF Registered \ {callback} = {}
             THEN address_rotation_alarm' # "scheduled"
             ELSE address_rotation_alarm' = address_rotation_alarm
     /\ {c \in Clients : registered_clients'[c] # NOT_REGISTERED} = {}
          => address_rotation_alarm' # "scheduled"]_vars

\* C14: the completion of a submitted command that does not decode as
\* valid, or that reports a status other than success, aborts the process:
\* no resume and no next command is posted for it.
C14_BadCompletionIsFatal ==
  [][\A view \in CommandCompleteView \ {"SUCCESS"} :
       OnCommandComplete(view) =>
         /\ fatal' # NoFatal
         /\ handler_queue' = handler_queue]_vars

\* C15: for every random word and every minimum_rotation_time_ <=
\* maximum_rotation_time_, equal ones included, the delay of the alarm is
\* defined and lies in [minimum, maximum]; for 1000 ms and 2000 ms it lies
\* in [1000, 2000).
C15_DelayWithinInterval ==
  ( /\ pure_call.fn = "get_next_private_address_interval_ms"
    /\ pure_call.minimum_rotation_time <= pure_call.maximum_rotation_time )
  => /\ pure_call.status = "returned"
     /\ pure_call.delay >= pure_call.minimum_rotation_time
     /\ pure_call.delay <= pure_call.maximum_rotation_time
     /\ ( /\ pure_call.minimum_rotation_time = 1000
          /\ pure_call.maximum_rotation_time = 2000 )
          => pure_call.delay < 2000

\* the random part of an address: address[lo..4] and the six low bits of
\* address[5] are all 0, or all 1
RandomPartDegenerate(address, lo) ==
  \/ /\ \A i \in lo..4 : address[i] = 0
     /\ address[5] % 64 = 0
  \/ /\ \A i \in lo..4 : address[i] = 255
     /\ address[5] % 64 = 63

\* C17: a generated resolvable address has most significant bits 01 and a
\* 22-bit random part (prand without the type bits) neither all 0 nor all 1;
\* a generated non-resolvable address has most significant bits 00 and 46
\* low bits neither all 0 nor all 1; also after the substitutions for a
\* degenerate draw and for a collision with the public address.
C17_GeneratedAddressesWellFormed ==
  /\ pure_call.fn = "generate_rpa" =>
       /\ pure_call.address[5] \div 64 = 1
       /\ ~RandomPartDegenerate(pure_call.address, 3)
  /\ (pure_call.fn = "generate_nrpa" /\ pure_call.status = "returned") =>
       /\ pure_call.address[5] \div 64 = 0
       /\ ~RandomPartDegenerate(pure_call.address, 0)

\* generate_nrpa has returned after a substitution for a degenerate array
\* and one for a collision with the public address
C17_Witness ==
  /\ pure_call.fn = "generate_nrpa"
  /\ pure_call.status = "returned"
  /\ pure_call.degenerate
  /\ pure_call.redraws > 0

\* C18: an address generate_nrpa returns differs from public_address_.
C18_NrpaDiffersFromPublic ==
  (pure_call.fn = "generate_nrpa" /\ pure_call.status = "returned") =>
    pure_call.address # pure_call.public_address

\* generate_nrpa has returned after its first address collided with
\* public_address_ and a redrawn one collided again
C18_Witness ==
  /\ pure_call.fn = "generate_nrpa"
  /\ pure_call.status = "returned"
  /\ pure_call.redraws > 1

\* C16: GetAnotherAddress changes nothing of the manager (address, policy,
\* clients, cached queue, alarm, tasks) and submits no command, and it aborts
\* unless the policy is Resolvable or NonResolvable; GetCurrentAddress
\* aborts while the policy is not set, and only then.
C16_GettersReadOnly ==
  [][/\ observed'.op = "GetAnotherAddress" =>
          /\ UNCHANGED <<address_policy, registered_clients, cached_commands,
                         address_rotation_alarm, handler_queue, hci_queue,
                         le_address, le_address_type, next_id, last_submitted>>
          /\ fatal' # NoFatal <=>
               address_policy \notin {USE_RESOLVABLE_ADDRESS,
                                      USE_NON_RESOLVABLE_ADDRESS}
     /\ observed'.op = "GetCurrentAddress" =>
          /\ UNCHANGED <<address_policy, registered_clients, cached_commands,
                         address_rotation_alarm, handler_queue, hci_queue,
                         le_address, le_address_type, next_id, last_submitted>>
          /\ fatal' # NoFatal <=> address_policy = POLICY_NOT_SET]_vars

\* GetAnotherAddress has returned while a rotation was in progress
C16_Witness ==
  /\ observed.op = "GetAnotherAddress"
  /\ fatal = NoFatal
  /\ address_policy = USE_NON_RESOLVABLE_ADDRESS
  /\ hci_queue # << >>
  /\ Registered # {}

\* what the receiver gets for a frame: the frame without its tag, through
\* the callback of the tag
FrameDelivery(frame) ==
  [callback |-> CallbackOf(frame[1]), packet |-> Tail(frame)]

\* C19: with a receiver installed, every run of the read callback on the
\* stream of well-formed Event, ACL and SCO frames delivers exactly the next
\* frame the peer wrote, header and payload byte for byte, through the
\* callback of its tag, and does not abort.
C19_IncomingFramesDeliveredIntact ==
  [][(/\ incoming_packet_callback # "nullptr"
      /\ Len(socket_readable') < Len(socket_readable))
     => /\ hal_fatal' = NoFatal
        /\ Len(peer_wrote) > Len(received)
        /\ received' =
             Append(received, FrameDelivery(peer_wrote[Len(received) + 1]))
    ]_vars

\* a packet handed to a send function with the tag of that function in front
Tagged(entry) == <<entry.tag>> \o entry.packet

RECURSIVE Flatten(_)
Flatten(frames) ==
  IF frames = << >> THEN << >>
  ELSE Head(frames) \o Flatten(Tail(frames))

\* C20: while the driver runs, the bytes written to the socket are the
\* packets handed to the send functions that have left the outgoing queue,
\* in the order they were handed over, each whole and behind its own tag.
C20_FramesWrittenInOrder ==
  HalRunning =>
    socket_written =
      Flatten([i \in 1..(Len(handed) - Len(hci_outgoing_queue)) |->
                 Tagged(handed[i])])

\* C21: a call of registerIncomingPacketCallback with a receiver installed,
\* or with no receiver to install, aborts and leaves the installed receiver
\* as it was; the receiver changes only when one is installed where there
\* was none, or when Stop returns, which clears it.
C21_AtMostOneReceiver ==
  [][/\ \A callback \in Callbacks :
          ( /\ RegisterCallback(callback)
            /\ (incoming_packet_callback # "nullptr" \/ callback = "nullptr") )
          => ( /\ hal_fatal' # NoFatal
               /\ incoming_packet_callback' = incoming_packet_callback )
     /\ (incoming_packet_callback' # incoming_packet_callback)
          => \/ ( /\ incoming_packet_callback = "nullptr"
                  /\ hal_fatal' = NoFatal
                  /\ stops' = stops )
             \/ ( /\ incoming_packet_callback' = "nullptr"
                  /\ stops' = stops + 1 )
     /\ (stops' # stops) => incoming_packet_callback' = "nullptr"
    ]_vars

\* a receiver is installed after the Stop that cleared the one which had
\* a packet read for it
C21_Witness ==
  /\ stops > 0
  /\ sock_fd = "INVALID_FD"
  /\ received # << >>
  /\ incoming_packet_callback = "callbacks"
  /\ HalRunning

\* Stop has returned and the HAL has not been started again
Closed == stops > 0 /\ stop_pc = "idle" /\ sock_fd = "INVALID_FD"

\* C22: no callback of the loop thread uses the capture sink, the receiver
\* or the socket once Stop has released them, and while the HAL is closed
\* no packet is delivered and no callback is at work.
C22_NoCallbackAfterClose ==
  [][/\ released_use' = "none"
     /\ Closed => received' = received
     /\ Closed' => read_packet' = NoPacket
    ]_vars

\* the packet handed to a send function whose frame is at the head of the
\* outgoing queue
HeadHanded == handed[Len(handed) - Len(hci_outgoing_queue) + 1]

\* C23: when Stop has returned the outgoing queue is empty, and a frame is
\* written to the socket only before the first Stop that follows the call
\* which queued it.
C23_CloseDiscardsQueue ==
  [][/\ Closed' => hci_outgoing_queue' = << >>
     /\ (socket_written' # socket_written) => HeadHanded.epoch = stops
    ]_vars

\* the read callback runs with a receiver installed and takes bytes
ReadsFrame ==
  /\ incoming_packet_callback # "nullptr"
  /\ Len(socket_readable') < Len(socket_readable)
  /\ Len(peer_wrote) > Len(received)

\* the frame of the peer the read callback is at
FrameAtHand == peer_wrote[Len(received) + 1]

C26_NoFrameLostSilently ==
  [][(Len(hci_outgoing_queue') < Len(hci_outgoing_queue))
     => \/ socket_written' = socket_written \o Head(hci_outgoing_queue)
        \/ hal_fatal' # NoFatal
    ]_vars

\* OnCommandComplete handles a completion that releases the barrier
HandlesCompletion ==
  /\ observed'.op = "OnCommandComplete"
  /\ Len(handler_queue') > Len(handler_queue)

\* resume_registered_clients runs, or the handle_next_command that
\* OnCommandComplete posted instead of it
ResumeWouldFire ==
  \/ observed'.op = "resume_registered_clients"
  \/ observed'.op = "handle_next_command"

\* the head of the cached queue is dequeued and submitted
SubmitsHead ==
  /\ cached_commands # << >>
  /\ cached_commands' = Tail(cached_commands)
  /\ Len(hci_queue') = Len(hci_queue) + 1
  /\ hci_queue'[Len(hci_queue')].id = Head(cached_commands).id
  /\ SubSeq(hci_queue', 1, Len(hci_queue)) = hci_queue
  /\ fatal' = NoFatal

\* C27: a completion handled with commands cached posts handle_next_command
\* and not a resume; handle_next_command posted this way, and a resume that
\* finds commands cached, dequeue and submit exactly the head of the queue;
\* none of them calls OnResume or changes a client's recorded state.
C27_WorkBeforeResume ==
  [][/\ (HandlesCompletion /\ cached_commands # << >>)
          => ( /\ handler_queue'[Len(handler_queue')].fn = "handle_next_command"
               /\ observed'.OnResume = {}
               /\ registered_clients' = registered_clients )
     /\ ( /\ ResumeWouldFire
          /\ cached_commands # << >> \/ observed'.op = "handle_next_command" )
          => ( /\ SubmitsHead
               /\ observed'.OnResume = {}
               /\ registered_clients' = registered_clients )
    ]_vars

\* one step of a client's recorded state along the cycle
CycleStep(from, to) ==
  \/ from = RESUMED /\ to = WAITING_FOR_PAUSE
  \/ from = WAITING_FOR_PAUSE /\ to = PAUSED
  \/ from = PAUSED /\ to = WAITING_FOR_RESUME
  \/ from = WAITING_FOR_RESUME /\ to = RESUMED

\* C28: the recorded state of a client that stays registered changes only
\* by one step of the cycle Resumed, WaitingForPause, Paused,
\* WaitingForResume, Resumed; the clients sent OnPause are recorded as
\* WaitingForPause and the clients sent OnResume as WaitingForResume.
C28_StatesFollowTheCycle ==
  [][/\ \A c \in Clients :
          ( /\ registered_clients[c] # NOT_REGISTERED
            /\ registered_clients'[c] # NOT_REGISTERED
            /\ registered_clients'[c] # registered_clients[c] )
          => CycleStep(registered_clients[c], registered_clients'[c])
     /\ \A c \in observed'.OnPause :
          registered_clients'[c] = WAITING_FOR_PAUSE
     /\ \A c \in observed'.OnResume :
          registered_clients'[c] = WAITING_FOR_RESUME
    ]_vars

\* the operations that run on the manager's handler
HandlerOps ==
  {"enqueue_command", "register_client", "unregister_client", "ack_pause",
   "ack_resume", "pause_registered_clients", "resume_registered_clients",
   "handle_next_command", "prepare_to_rotate"}

\* C29: between a list mutator's request of the pause and its push of the
\* command the handler runs neither the pause nor an acknowledgment of it,
\* and the cached queue is changed by the handler only.
C29_CommandQueuedBeforePause ==
  [][/\ pending_push # "none"
          => observed'.op \notin {"pause_registered_clients", "ack_pause"}
     /\ cached_commands' # cached_commands => observed'.op \in HandlerOps
    ]_vars

\* the rotation alarm has just expired while a client is registered
AlarmFired ==
  /\ observed.op = "prepare_to_rotate"
  /\ address_policy \in {USE_RESOLVABLE_ADDRESS, USE_NON_RESOLVABLE_ADDRESS}
  /\ \E c \in Clients : registered_clients[c] # NOT_REGISTERED

\* C30: under a rotating policy and with a client registered, every expiry
\* of the rotation alarm is eventually followed by the alarm armed again.
C30_AlarmRearmed ==
  AlarmFired ~> (address_rotation_alarm = "scheduled" \/ ~Running)

\* a call of setPrivacyPolicy with a rotating policy that returned
SetsRotatingPolicy ==
  /\ observed'.op = "SetPrivacyPolicyForInitiatorAddress"
  /\ address_policy = POLICY_NOT_SET
  /\ address_policy' \in {USE_RESOLVABLE_ADDRESS, USE_NON_RESOLVABLE_ADDRESS}
  /\ fatal' = NoFatal

\* the call stored its arguments, submitted nothing and kept the address
StoresRotationOnly ==
  /\ rotation_irk' = RotationArgs.rotation_irk
  /\ minimum_rotation_time' = RotationArgs.minimum_rotation_time
  /\ maximum_rotation_time' = RotationArgs.maximum_rotation_time
  /\ hci_queue' = hci_queue
  /\ handler_queue' = handler_queue
  /\ cached_commands' = cached_commands
  /\ le_address' = le_address
  /\ le_address_type' = le_address_type

\* C31 as stated: setPrivacyPolicy with Resolvable or NonResolvable stores
\* the rotation key and the interval bounds and leaves the rotation alarm
\* armed, submitting no command and keeping the current address.
C31_SetPolicyArmsAlarm ==
  [][SetsRotatingPolicy
       => StoresRotationOnly /\ address_rotation_alarm' = "scheduled"]_vars

\* C31: setPrivacyPolicy with Resolvable or NonResolvable stores the rotation
\* key and the interval bounds and creates the rotation alarm without arming
\* it, submitting no command and keeping the current address.
C31_SetPolicyCreatesAlarm ==
  [][SetsRotatingPolicy
       => StoresRotationOnly /\ address_rotation_alarm' = "idle"]_vars

C31_Witness ==
  /\ observed.op = "SetPrivacyPolicyForInitiatorAddress"
  /\ address_policy \in {USE_RESOLVABLE_ADDRESS, USE_NON_RESOLVABLE_ADDRESS}
  /\ fatal = NoFatal
  /\ rotation_irk = RotationArgs.rotation_irk
  /\ address_rotation_alarm = "idle"

\* the rotation routine submits a set-random-address command in this step
RotationSubmits ==
  /\ Len(hci_queue') = Len(hci_queue) + 1
  /\ hci_queue'[Len(hci_queue')].op_code = LE_SET_RANDOM_ADDRESS
  /\ hci_queue'[Len(hci_queue')].id > 0

\* this step handles the completion of a command
CompletionStep ==
  observed'.op \in {"OnCommandComplete", "on_le_set_random_address_complete"}

\* C32: once the rotation routine has submitted a set-random-address
\* command the current address is the generated address of the command, of
\* type random, with the completion still to come; handling a completion
\* keeps the current address; only the rotation routine and setPrivacyPolicy
\* change it.
C32_AddressUpdatedAtSubmission ==
  [][/\ RotationSubmits
          => /\ le_address' = hci_queue'[Len(hci_queue')].address
             /\ le_address_type' = "RANDOM_DEVICE_ADDRESS"
     /\ CompletionStep
          => le_address' = le_address /\ le_address_type' = le_address_type
     /\ <<le_address, le_address_type>>' # <<le_address, le_address_type>>
          => \/ RotationSubmits
             \/ observed'.op = "SetPrivacyPolicyForInitiatorAddress"
    ]_vars

C32_Witness ==
  /\ hci_queue # << >>
  /\ hci_queue[Len(hci_queue)].id > 0
  /\ hci_queue[Len(hci_queue)].op_code = LE_SET_RANDOM_ADDRESS
  /\ le_address = hci_queue[Len(hci_queue)].address
  /\ le_address # EmptyAddress
  /\ le_address_type = "RANDOM_DEVICE_ADDRESS"

\* this step handles the valid completion of the initial static address set
InitialStaticSetCompletes ==
  /\ observed'.op = "OnCommandComplete"
  /\ address_policy = USE_STATIC_ADDRESS
  /\ hci_queue # << >>
  /\ Head(hci_queue).id = 0
  /\ Head(hci_queue).op_code = LE_SET_RANDOM_ADDRESS

\* C33: under USE_STATIC_ADDRESS the completion of the initial
\* set-random-address command changes no client state, sends no OnPause and
\* no OnResume, and neither dequeues nor submits a cached command, nor posts
\* a task that would, whatever was registered or cached in the meantime.
C33_InitialStaticCompletionIsNoOp ==
  [][InitialStaticSetCompletes
       => /\ registered_clients' = registered_clients
          /\ observed'.OnPause = {} /\ observed'.OnResume = {}
          /\ pending_pause' = pending_pause
          /\ pending_resume' = pending_resume
          /\ cached_commands' = cached_commands
          /\ hci_queue' = Tail(hci_queue)
          /\ last_submitted' = last_submitted
          /\ handler_queue' = handler_queue
    ]_vars

C33_Witness ==
  /\ observed.op = "OnCommandComplete"
  /\ address_policy = USE_STATIC_ADDRESS
  /\ fatal = NoFatal
  /\ last_submitted = 0
  /\ hci_queue = << >>
  /\ Registered # {}
  /\ cached_commands # << >>
  /\ handler_queue = << >>

\* the connection is open and no driver operation is running
OpenAtRest ==
  /\ HalRunning
  /\ MutexFree
  /\ sock_fd # "INVALID_FD"

\* C34: while the connection is open, between two driver operations the
\* write trigger is armed iff the outgoing queue is non-empty, also after a
\* close followed by an open; a send arms it exactly when the queue was
\* empty, an invocation of the write callback removes exactly one frame and
\* disarms it exactly when the queue becomes empty.
C34_TriggerArmedIffQueued ==
  [][/\ OpenAtRest' => (write_registered' <=> hci_outgoing_queue' # << >>)
     /\ ( /\ OpenAtRest /\ OpenAtRest'
          /\ Len(hci_outgoing_queue') = Len(hci_outgoing_queue) + 1 )
          => ( (write_registered' /\ ~write_registered)
                 <=> hci_outgoing_queue = << >> )
     /\ ( /\ OpenAtRest /\ OpenAtRest'
          /\ Len(hci_outgoing_queue') < Len(hci_outgoing_queue) )
          => /\ hci_outgoing_queue' = Tail(hci_outgoing_queue)
             /\ (write_registered /\ ~write_registered')
                  <=> hci_outgoing_queue' = << >>
    ]_vars

\* C35: handle_next_command never runs with an empty cached queue: its
\* assertion fails in no reachable state, whatever the clients register,
\* acknowledge (asked to pause or not), unregister, and whatever is
\* requested and completed.
C35_NextCommandNeverOnEmptyQueue ==
  fatal # "ASSERT(!cached_commands_.empty())"

\* C36: a client that was sent OnPause and has not acknowledged it yet is
\* not sent OnPause again by a later pause request.
C36_OnePauseUntilAcked ==
  [][\A c \in Clients : pending_pause[c] => c \notin observed'.OnPause]_vars

\* the handler is about to unregister the only client that is not PAUSED,
\* with command `id` at the head of the cached queue and none in flight
LastUnpausedLeaves(id) ==
  /\ Running
  /\ handler_queue # << >>
  /\ Head(handler_queue).fn = "unregister_client"
  /\ registered_clients[Head(handler_queue).arg] \notin {NOT_REGISTERED, PAUSED}
  /\ \A c \in Clients \ {Head(handler_queue).arg} :
       registered_clients[c] \in {NOT_REGISTERED, PAUSED}
  /\ cached_commands # << >>
  /\ Head(cached_commands).id = id
  /\ hci_queue = << >>

\* C37: when the only registered client that is not Paused unregisters
\* while a command is cached and none is in flight, the head of the cached
\* queue is eventually submitted.
C37_LeavingClientReleasesBarrier ==
  \A id \in 1..MaxCommands :
    LastUnpausedLeaves(id) ~> (last_submitted >= id \/ ~Running)

\* a list mutator's command `id` is in the cached queue with no client
\* registered and none asking to be
RequestedWithoutClients(id) ==
  /\ Running
  /\ \E i \in DOMAIN cached_commands :
       /\ cached_commands[i].id = id
       /\ cached_commands[i].command_type \in ListCommandType
  /\ Registered = {}
  /\ \A c \in Clients : ~client_view[c]

\* C38: a list mutation requested while no client is registered is
\* eventually submitted to the controller.
C38_SubmittedWithoutClients ==
  \A id \in 1..MaxCommands :
    RequestedWithoutClients(id) ~> (last_submitted >= id \/ ~Running)

\* the read callback runs on a stream that holds a known tag and its header
ReadsHeader ==
  /\ ReadsFrame
  /\ socket_readable[1] \in {kH4Event, kH4Acl, kH4Sco}
  /\ Len(socket_readable) >= kH4HeaderSize + HeaderSize(socket_readable[1])

\* C39: whatever length the header declares, the payload recv of the read
\* callback asks for bytes within buf: its offset plus the requested size is
\* at most kBufSize, and the packet it builds is no longer than buf's room.
C39_ReadStaysWithinBuf ==
  [][ReadsHeader
       => /\ RequestEnd(socket_readable[1],
                        Take(Drop(socket_readable, kH4HeaderSize),
                             HeaderSize(socket_readable[1]))) <= kBufSize
          /\ \A i \in DOMAIN received' :
               Len(received'[i].packet) <= kBufSize - kH4HeaderSize
    ]_vars

\* the read callback takes bytes from a stream that starts with a byte that
\* is none of kH4Event, kH4Acl and kH4Sco
ReadsUnknownTag ==
  /\ ReadReady
  /\ incoming_packet_callback # "nullptr"
  /\ socket_readable # << >>
  /\ socket_readable[1] \notin {kH4Event, kH4Acl, kH4Sco}
  /\ Len(socket_readable') < Len(socket_readable)

\* C40: the read callback does not consume a tag byte that is not Event,
\* ACL or SCO and go on: it aborts, and delivers nothing.
C40_UnknownTagIsFatal ==
  [][ReadsUnknownTag => (hal_fatal' # NoFatal /\ received' = received)]_vars

====
